---- MODULE Spec2Model ----
(***************************************************************************)
(* Claims lifecycle and remittance reconciliation of the RCM system:       *)
(* payment postings and claim aggregates (routes/denials.js, payments      *)
(* section), claim create/update/submit/delete (routes/claims.js), the     *)
(* storage helper (server/middleware/audit.js, class Database) and the     *)
(* remittance parser and processor (services/era-processor.js).            *)
(*                                                                         *)
(* Money is counted in whole units.  A table is a function from the ids of *)
(* its rows to row records.  A request handler is a process whose pc marks *)
(* the await it is suspended at; every awaited storage statement is one    *)
(* step.  A statement run on a transaction's connection sees the committed *)
(* rows overlaid with the transaction's own writes, and a row written by   *)
(* an open transaction is locked against other writers until it ends.      *)
(***************************************************************************)
EXTENDS Integers, Sequences, FiniteSets, TLC

\* ---------------------------------------------------------------- bounds
MaxReq == 2
MaxOps == 2
MaxPostingId == 4

\* ------------------------------------------------------------- constants
NULL == 0
UserId == 7
ReqIds == 1 .. MaxReq
ClaimIds == {1, 2}
MissingClaimId == 3
PostingIds == 1 .. MaxPostingId
Amounts == {10, 20}

VARIABLES
  claims,         \* table claims: id -> row
  line_items,     \* table claim_line_items, grouped by claim_id: id -> Seq(row)
  postings,       \* table payment_postings: id -> row
  nextPostingId,  \* AUTO_INCREMENT of payment_postings
  nextClaimId,    \* AUTO_INCREMENT of claims
  req,            \* request handlers: slot -> locals and pc
  tx,             \* open transactions: slot -> uncommitted writes and locks
  ops,            \* number of requests started
  gateway,        \* clearinghouse: claims it has accepted, calls it has seen
  parse,          \* parseERAFile: the lines read so far and the parser's locals
  era,            \* processERAFile / processERAClaim: locals and pc
  eras,           \* table eras: id -> row
  era_claim_details, \* table era_claim_details, in insertion order
  denials,        \* table denials, in insertion order
  settings,       \* table system_settings: setting_key -> setting_value
  audit,          \* table audit_logs: whether writes to it fail, rows stored
  serial,         \* TRUE: the server is given one request at a time
  accounts,       \* table users: id -> the columns login reads and writes
  clock           \* the time new Date() reads, in units of ten minutes

vars == <<claims, line_items, postings, nextPostingId, nextClaimId, req, tx, ops, gateway,
          parse, era, eras, era_claim_details, denials, settings, audit, serial, accounts, clock>>

\* what login owns
authVars == <<accounts, clock>>

\* what the remittance side owns
eraVars == <<parse, era, eras, era_claim_details, denials, settings>>

\* what the request handlers own
reqVars == <<req, tx, ops, gateway, nextClaimId, line_items, serial, authVars>>

\* ----------------------------------------------------- function helpers
Merge(f, g) == [x \in (DOMAIN f) \cup (DOMAIN g) |-> IF x \in DOMAIN g THEN g[x] ELSE f[x]]

Without(f, S) == [x \in (DOMAIN f) \ S |-> f[x]]

EmptyFn == [x \in {} |-> 0]

RECURSIVE SumOver(_, _)
SumOver(f, S) ==
  IF S = {} THEN 0
  ELSE LET x == CHOOSE y \in S : TRUE IN f[x] + SumOver(f, S \ {x})

RECURSIVE SumSeq(_)
SumSeq(s) == IF s = <<>> THEN 0 ELSE Head(s) + SumSeq(Tail(s))

Max(a, b) == IF a >= b THEN a ELSE b

\* ------------------------------------------------- storage (class Database)
NoTx == [active |-> FALSE, pp_rows |-> EmptyFn, pp_del |-> {}, cl_rows |-> EmptyFn,
         cl_del |-> {}, li_rows |-> EmptyFn, locks |-> {}]

BeginTx == [NoTx EXCEPT !.active = TRUE]

\* the rows a statement on request r's connection sees
ViewPostings(r) == Merge(Without(postings, tx[r].pp_del), tx[r].pp_rows)

ViewClaims(r) == Merge(Without(claims, tx[r].cl_del), tx[r].cl_rows)

ViewLineItems(r) == Merge(line_items, tx[r].li_rows)

\* a row lock held by another open transaction blocks the statement
LockedByOther(r, key) == \E o \in ReqIds \ {r} : key \in tx[o].locks

LockFree(key) == \A o \in ReqIds : key \notin tx[o].locks

\* connection.commit(): the transaction's writes become the stored rows
CommittedClaims(r) == Merge(Without(claims, tx[r].cl_del), tx[r].cl_rows)

CommittedPostings(r) == Merge(Without(postings, tx[r].pp_del), tx[r].pp_rows)

CommittedLineItems(r) == Merge(line_items, tx[r].li_rows)

\* ------------------------------------------------------ request handlers
NoResult == [success |-> FALSE, clearinghouse_id |-> NULL]

Idle == [op |-> "none", pc |-> "idle", id |-> 0, claim_id |-> 0, body |-> EmptyFn,
         totalPaid |-> 0, totalAdjustments |-> 0, total_charges |-> 0, status |-> 0,
         error |-> "", touched |-> {}, k |-> 0, submissionResult |-> NoResult,
         existing |-> "", results |-> <<>>]

\* no other request is in flight
Alone(r) == \A o \in ReqIds \ {r} : req[o].pc \in {"idle", "done"}

\* slot r can take a new request
Free(r) == req[r].pc \in {"idle", "done"} /\ ops < MaxOps /\ (serial => Alone(r))

\* the response is sent; the handler's locals are gone
Respond(r, code) == [Idle EXCEPT !.op = req[r].op, !.pc = "done", !.id = req[r].id, !.status = code]

\* an answer made before the handler has any locals
Answer(op, id, code, error) ==
  [Idle EXCEPT !.op = op, !.pc = "done", !.id = id, !.status = code, !.error = error]

\* ------------------------------------------- payments (routes/denials.js)
PaymentTypes == {"INSURANCE", "PATIENT", "ADJUSTMENT", "REFUND"}

PaymentMethods == {"CHECK", "EFT", "CREDIT_CARD", "CASH", "ERA"}

\* paymentSchema.validate(req.body)
\* a schema without the .min(0) on payment_amount
paymentSchema_AnyAmount(body) ==
  /\ body.payment_type \in PaymentTypes
  /\ body.payment_method \in PaymentMethods

paymentSchema(body) ==
  /\ body.payment_type \in PaymentTypes
  /\ body.payment_method \in PaymentMethods
  /\ body.payment_amount >= 0

\* request bodies the handlers are driven with
PaymentBodies ==
  [claim_id : ClaimIds, payment_type : PaymentTypes, payment_method : {"CHECK"},
   payment_amount : Amounts]
    \cup {[claim_id |-> 1, payment_type |-> "INSURANCE", payment_method |-> "ERA", payment_amount |-> 20],
          [claim_id |-> 1, payment_type |-> "INSURANCE", payment_method |-> "CHECK", payment_amount |-> -10],
          [claim_id |-> 1, payment_type |-> "BONUS", payment_method |-> "CHECK", payment_amount |-> 10],
          [claim_id |-> 1, payment_type |-> "PATIENT", payment_method |-> "BARTER", payment_amount |-> 10],
          [claim_id |-> MissingClaimId, payment_type |-> "PATIENT", payment_method |-> "CASH", payment_amount |-> 10]}

\* the guard with the actor test the wrong way round: posted_by instead of !posted_by
IsAutoPostedERA_HumanOnly(p) == p.payment_method = "ERA" /\ p.posted_by # NULL

\* the ERA guard of PUT /:id and DELETE /:id: payment_method === "ERA" && !posted_by
IsAutoPostedERA(p) == p.payment_method = "ERA" /\ p.posted_by = NULL

\* updateClaimTotals: SUM(CASE WHEN payment_type IN ('INSURANCE','PATIENT') ...)
TotalPaidOf(pp, c) ==
  SumOver([i \in DOMAIN pp |-> pp[i].payment_amount],
          {i \in DOMAIN pp : pp[i].claim_id = c /\ pp[i].payment_type \in {"INSURANCE", "PATIENT"}})

\* updateClaimTotals: SUM(CASE WHEN payment_type = 'ADJUSTMENT' ...)
TotalAdjustmentsOf(pp, c) ==
  SumOver([i \in DOMAIN pp |-> pp[i].payment_amount],
          {i \in DOMAIN pp : pp[i].claim_id = c /\ pp[i].payment_type = "ADJUSTMENT"})

\* updateClaimTotals: Math.max(0, claim.total_charges - totalPaid - totalAdjustments)
PatientResponsibility(total_charges, totalPaid, totalAdjustments) ==
  Max(0, total_charges - totalPaid - totalAdjustments)

PayUnchanged == UNCHANGED <<line_items, nextClaimId, gateway, eraVars, audit, serial, authVars>>

\* POST /payments up to the transaction: validate, then findById("claims", claim_id)
PostPayment(r, body) ==
  /\ Free(r)
  /\ nextPostingId + Cardinality({o \in ReqIds : req[o].pc = "insert"}) <= MaxPostingId
  /\ ops' = ops + 1
  /\ req' = [req EXCEPT ![r] =
       IF ~paymentSchema(body) THEN [Idle EXCEPT !.op = "post_payment", !.pc = "done", !.status = 400]
       ELSE IF body.claim_id \notin DOMAIN claims
            THEN [Idle EXCEPT !.op = "post_payment", !.pc = "done", !.status = 404]
       ELSE [Idle EXCEPT !.op = "post_payment", !.pc = "insert", !.body = body,
                         !.claim_id = body.claim_id]]
  /\ UNCHANGED <<claims, postings, nextPostingId, tx>>
  /\ PayUnchanged

\* POST /payments: beginTransaction, INSERT INTO payment_postings
PostPaymentInsert(r) ==
  /\ req[r].pc = "insert"
  /\ nextPostingId <= MaxPostingId
  /\ LET b == req[r].body
         row == [claim_id |-> b.claim_id, payment_type |-> b.payment_type,
                 payment_method |-> b.payment_method, payment_amount |-> b.payment_amount,
                 posted_by |-> UserId]
     IN IF b.claim_id \in DOMAIN claims
        THEN /\ tx' = [tx EXCEPT ![r] = [BeginTx EXCEPT !.pp_rows = (nextPostingId :> row),
                                                     !.locks = {<<"pp", nextPostingId>>}]]
             /\ req' = [req EXCEPT ![r].pc = "totals_sum", ![r].id = nextPostingId,
                                   ![r].touched = {b.claim_id}]
        ELSE \* the foreign key on claim_id fails: rollback, 500
             /\ tx' = tx
             /\ req' = [req EXCEPT ![r] = Respond(r, 500)]
  /\ nextPostingId' = nextPostingId + 1
  /\ UNCHANGED <<claims, postings, ops>>
  /\ PayUnchanged

\* PUT /payments/:id up to the transaction: findById, ERA guard, validate
PutPayment(r, id, body) ==
  /\ Free(r)
  /\ ops' = ops + 1
  /\ req' = [req EXCEPT ![r] =
       IF id \notin DOMAIN postings THEN [Idle EXCEPT !.op = "put_payment", !.pc = "done", !.id = id, !.status = 404]
       ELSE IF IsAutoPostedERA(postings[id])
            THEN [Idle EXCEPT !.op = "put_payment", !.pc = "done", !.id = id, !.status = 400]
       ELSE IF ~paymentSchema(body)
            THEN [Idle EXCEPT !.op = "put_payment", !.pc = "done", !.id = id, !.status = 400]
       ELSE [Idle EXCEPT !.op = "put_payment", !.pc = "update", !.id = id, !.body = body,
                         !.claim_id = body.claim_id]]
  /\ UNCHANGED <<claims, postings, nextPostingId, tx>>
  /\ PayUnchanged

\* PUT /payments/:id: beginTransaction, UPDATE payment_postings SET ... WHERE id = ?
PutPaymentUpdate(r) ==
  /\ req[r].pc = "update"
  /\ ~LockedByOther(r, <<"pp", req[r].id>>)
  /\ LET b == req[r].body
         i == req[r].id
     IN IF i \notin DOMAIN postings
        THEN \* the row is gone: the UPDATE changes nothing
             /\ tx' = [tx EXCEPT ![r] = BeginTx]
             /\ req' = [req EXCEPT ![r].pc = "totals_sum"]
        ELSE IF b.claim_id \notin DOMAIN claims
        THEN /\ tx' = tx
             /\ req' = [req EXCEPT ![r] = Respond(r, 500)]
        ELSE /\ tx' = [tx EXCEPT ![r] =
                  [BeginTx EXCEPT !.pp_rows = (i :> [postings[i] EXCEPT
                                      !.claim_id = b.claim_id, !.payment_type = b.payment_type,
                                      !.payment_method = b.payment_method,
                                      !.payment_amount = b.payment_amount]),
                                  !.locks = {<<"pp", i>>}]]
             /\ req' = [req EXCEPT ![r].pc = "totals_sum",
                                   ![r].touched = {postings[i].claim_id, b.claim_id}]
  /\ UNCHANGED <<claims, postings, nextPostingId, ops>>
  /\ PayUnchanged

\* DELETE /payments/:id up to the transaction: findById, ERA guard
DeletePayment(r, id) ==
  /\ Free(r)
  /\ ops' = ops + 1
  /\ req' = [req EXCEPT ![r] =
       IF id \notin DOMAIN postings THEN [Idle EXCEPT !.op = "delete_payment", !.pc = "done", !.id = id, !.status = 404]
       ELSE IF IsAutoPostedERA(postings[id])
            THEN [Idle EXCEPT !.op = "delete_payment", !.pc = "done", !.id = id, !.status = 400]
       ELSE [Idle EXCEPT !.op = "delete_payment", !.pc = "delete", !.id = id,
                         !.claim_id = postings[id].claim_id]]
  /\ UNCHANGED <<claims, postings, nextPostingId, tx>>
  /\ PayUnchanged

\* DELETE /payments/:id: beginTransaction, DELETE FROM payment_postings WHERE id = ?
DeletePaymentDelete(r) ==
  /\ req[r].pc = "delete"
  /\ ~LockedByOther(r, <<"pp", req[r].id>>)
  /\ LET i == req[r].id
     IN IF i \notin DOMAIN postings
        THEN /\ tx' = [tx EXCEPT ![r] = BeginTx]
             /\ req' = [req EXCEPT ![r].pc = "totals_sum"]
        ELSE /\ tx' = [tx EXCEPT ![r] = [BeginTx EXCEPT !.pp_del = {i}, !.locks = {<<"pp", i>>}]]
             /\ req' = [req EXCEPT ![r].pc = "totals_sum", ![r].touched = {postings[i].claim_id}]
  /\ UNCHANGED <<claims, postings, nextPostingId, ops>>
  /\ PayUnchanged

\* updateClaimTotals: the SELECT SUM(...) FROM payment_postings WHERE claim_id = ?
UpdateClaimTotalsSum(r) ==
  /\ req[r].pc = "totals_sum"
  /\ req' = [req EXCEPT ![r].pc = "totals_claim",
                        ![r].totalPaid = TotalPaidOf(ViewPostings(r), req[r].claim_id),
                        ![r].totalAdjustments = TotalAdjustmentsOf(ViewPostings(r), req[r].claim_id)]
  /\ UNCHANGED <<claims, postings, nextPostingId, tx, ops>>
  /\ PayUnchanged

\* updateClaimTotals: SELECT total_charges FROM claims WHERE id = ?; if (claim)
UpdateClaimTotalsClaim(r) ==
  /\ req[r].pc = "totals_claim"
  /\ req' = [req EXCEPT ![r] =
       IF req[r].claim_id \in DOMAIN ViewClaims(r)
       THEN [req[r] EXCEPT !.pc = "totals_write",
                           !.total_charges = ViewClaims(r)[req[r].claim_id].total_charges]
       ELSE [req[r] EXCEPT !.pc = "commit"]]
  /\ UNCHANGED <<claims, postings, nextPostingId, tx, ops>>
  /\ PayUnchanged

\* updateClaimTotals: UPDATE claims SET total_paid = ?, patient_responsibility = ? WHERE id = ?
UpdateClaimTotalsWrite(r) ==
  /\ req[r].pc = "totals_write"
  /\ ~LockedByOther(r, <<"cl", req[r].claim_id>>)
  /\ LET c == req[r].claim_id
     IN tx' = [tx EXCEPT ![r] =
          IF c \in DOMAIN ViewClaims(r)
          THEN [tx[r] EXCEPT !.cl_rows = Merge(tx[r].cl_rows,
                   c :> [ViewClaims(r)[c] EXCEPT
                           !.total_paid = req[r].totalPaid,
                           !.patient_responsibility =
                              PatientResponsibility(req[r].total_charges, req[r].totalPaid,
                                                    req[r].totalAdjustments)]),
                             !.locks = tx[r].locks \cup {<<"cl", c>>}]
          ELSE tx[r]]
  /\ req' = [req EXCEPT ![r].pc = "commit"]
  /\ UNCHANGED <<claims, postings, nextPostingId, ops>>
  /\ PayUnchanged

\* ------------------------------------------------------------ audit log
\* the audit store takes rows
AuditWorks == audit = [failing |-> FALSE, logs |-> 0]

\* a row of table users: username, the password behind password_hash, the
\* lockout columns, and the code mfa_secret currently yields
Account(failed_login_attempts, account_locked_until, mfa_enabled) ==
  [username |-> "alice", password_hash |-> "secret", is_active |-> TRUE,
   failed_login_attempts |-> failed_login_attempts,
   account_locked_until |-> account_locked_until,
   mfa_enabled |-> mfa_enabled, mfa_secret |-> "123456"]

\* one user who never failed a login; nobody logs in
AuthIdle == accounts = (1 :> Account(0, NULL, FALSE)) /\ clock = 1

\* auditLog: Database.create("audit_logs", auditData) inside try; a failing store
\* stores nothing
auditLog(store) == IF store.failing THEN store ELSE [store EXCEPT !.logs = store.logs + 1]

\* an auditLog whose catch rethrows the error of the store
auditLogThrows_Rethrow(store) == store.failing

\* auditLog: catch (error) { console.error(...) }: no error leaves the function
auditLogThrows(store) == FALSE

\* Database.transaction: connection.commit(), then await auditLog(...) and the
\* handler's success response
Commit(r) ==
  /\ req[r].pc = "commit"
  /\ claims' = CommittedClaims(r)
  /\ postings' = CommittedPostings(r)
  /\ line_items' = CommittedLineItems(r)
  /\ tx' = [tx EXCEPT ![r] = NoTx]
  /\ audit' = auditLog(audit)
  /\ req' = [req EXCEPT ![r] =
       Respond(r, IF auditLogThrows(audit) THEN 500
                  ELSE IF req[r].op \in {"post_payment", "create_claim"} THEN 201 ELSE 200)]
  /\ UNCHANGED <<nextPostingId, nextClaimId, ops, gateway, eraVars, serial, authVars>>

\* Database.transaction: a statement or the commit throws; connection.rollback(),
\* the handler's catch answers 500
Rollback(r) ==
  /\ tx[r].active
  /\ tx' = [tx EXCEPT ![r] = NoTx]
  /\ req' = [req EXCEPT ![r] = Respond(r, 500)]
  /\ UNCHANGED <<claims, line_items, postings, nextPostingId, nextClaimId, ops, gateway, eraVars, audit,
                 serial, authVars>>

\* the remittance side at rest: nothing parsed, nothing processed, no rows
NoParse == [pc |-> "none", lines |-> <<>>, eraData |-> EmptyFn, currentClaim |-> <<>>]

NoEra == [pc |-> "none"]

EraIdle ==
  /\ parse = NoParse
  /\ era = NoEra
  /\ eras = EmptyFn
  /\ era_claim_details = <<>>
  /\ denials = <<>>
  /\ settings = EmptyFn

\* ------------------------------------------------ payments: specification
LineItem(n, amount) == [line_number |-> n, procedure_code |-> "99213", service_date |-> 1,
                        charge_amount |-> amount]

ClaimRow(number, status, charges, paid, resp, date, chid) ==
  [claim_number |-> number, claim_status |-> status, total_charges |-> charges,
   total_paid |-> paid, patient_responsibility |-> resp, submission_date |-> date,
   clearinghouse_id |-> chid]

\* two submitted claims; claim 1 carries one posting made by remittance auto-posting
\* and one posted by hand, and its aggregates are those updateClaimTotals left
PayTables ==
  /\ claims = (1 :> ClaimRow("CLM1", "SUBMITTED", 50, 30, 20, 1, 1)
               @@ 2 :> ClaimRow("CLM2", "SUBMITTED", 30, 0, 0, 1, 2))
  /\ line_items = (1 :> <<LineItem(1, 50)>> @@ 2 :> <<LineItem(1, 30)>>)
  /\ postings = (1 :> [claim_id |-> 1, payment_type |-> "INSURANCE", payment_method |-> "ERA",
                       payment_amount |-> 20, posted_by |-> NULL]
                 @@ 2 :> [claim_id |-> 1, payment_type |-> "PATIENT", payment_method |-> "CHECK",
                          payment_amount |-> 10, posted_by |-> UserId])
  /\ nextPostingId = 3
  /\ nextClaimId = 3
  /\ req = [r \in ReqIds |-> Idle]
  /\ tx = [r \in ReqIds |-> NoTx]
  /\ ops = 0
  /\ gateway = [calls |-> 0, accepted |-> 0]
  /\ EraIdle

NextPay ==
  \/ \E r \in ReqIds, body \in PaymentBodies : PostPayment(r, body)
  \/ \E r \in ReqIds : PostPaymentInsert(r)
  \/ \E r \in ReqIds, id \in PostingIds, body \in PaymentBodies : PutPayment(r, id, body)
  \/ \E r \in ReqIds : PutPaymentUpdate(r)
  \/ \E r \in ReqIds, id \in PostingIds : DeletePayment(r, id)
  \/ \E r \in ReqIds : DeletePaymentDelete(r)
  \/ \E r \in ReqIds : UpdateClaimTotalsSum(r)
  \/ \E r \in ReqIds : UpdateClaimTotalsClaim(r)
  \/ \E r \in ReqIds : UpdateClaimTotalsWrite(r)
  \/ \E r \in ReqIds : Commit(r)
  \/ \E r \in ReqIds : Rollback(r)

InitPay == PayTables /\ serial = FALSE /\ AuditWorks /\ AuthIdle

InitPaySeq == PayTables /\ serial = TRUE /\ AuditWorks /\ AuthIdle

\* payment requests handled concurrently
SpecPay == InitPay /\ [][NextPay]_vars

\* payment requests handled one after the other
SpecPaySeq == InitPaySeq /\ [][NextPay]_vars

\* only POST /payments requests, handled concurrently
NextPost ==
  \/ \E r \in ReqIds, body \in PaymentBodies : PostPayment(r, body)
  \/ \E r \in ReqIds : PostPaymentInsert(r)
  \/ \E r \in ReqIds : UpdateClaimTotalsSum(r)
  \/ \E r \in ReqIds : UpdateClaimTotalsClaim(r)
  \/ \E r \in ReqIds : UpdateClaimTotalsWrite(r)
  \/ \E r \in ReqIds : Commit(r)
  \/ \E r \in ReqIds : Rollback(r)

SpecPost == InitPay /\ [][NextPost]_vars

\* ------------------------------------------------------ payments: claims
\* the sums the money invariant is stated over, taken from the stored postings
PaidSum(pp, c) ==
  SumOver([i \in DOMAIN pp |-> pp[i].payment_amount],
          {i \in DOMAIN pp : pp[i].claim_id = c /\ pp[i].payment_type \in {"INSURANCE", "PATIENT"}})

AdjustmentSum(pp, c) ==
  SumOver([i \in DOMAIN pp |-> pp[i].payment_amount],
          {i \in DOMAIN pp : pp[i].claim_id = c /\ pp[i].payment_type = "ADJUSTMENT"})

MoneyInvariant(cl, pp, c) ==
  /\ cl[c].total_paid = PaidSum(pp, c)
  /\ cl[c].patient_responsibility =
       Max(0, cl[c].total_charges - cl[c].total_paid - AdjustmentSum(pp, c))

Quiescent == \A r \in ReqIds : req[r].pc \in {"idle", "done"}

Commits(r) == req[r].pc = "commit" /\ req'[r].pc = "done" /\ req'[r].status \in {200, 201}

\* C1: when a payment create, update or delete commits, every claim that had a
\* posting added to it, changed on it or removed from it by that operation (the
\* claim an updated posting left included) satisfies the money invariant:
\* total_paid = sum of its INSURANCE and PATIENT postings and
\* patient_responsibility = max(0, total_charges - total_paid - adjustments).
C1_TouchedClaimsConsistent ==
  [][\A r \in ReqIds :
       Commits(r) =>
         \A c \in req[r].touched :
           c \in DOMAIN claims' => MoneyInvariant(claims', postings', c)]_vars

\* C1, cases the code does recompute: the claim named by the request body (create,
\* update) or by the deleted posting satisfies the money invariant at the commit.
C1_TargetClaimConsistent ==
  [][\A r \in ReqIds :
       (Commits(r) /\ req[r].touched # {} /\ req[r].claim_id \in DOMAIN claims')
         => MoneyInvariant(claims', postings', req[r].claim_id)]_vars

Arrives(r, op, i) ==
  /\ ops' = ops + 1
  /\ req[r].pc \in {"idle", "done"}
  /\ req'[r] # req[r]
  /\ req'[r].op = op
  /\ req'[r].id = i

AutoPosted(pp, i) == i \in DOMAIN pp /\ pp[i].payment_method = "ERA" /\ pp[i].posted_by = NULL

\* C8: a posting made by remittance auto-posting (method ERA, no human
\* posted_by) is never modified or removed, and every update or delete request
\* on it is answered 400 at once, leaving postings, claims and transactions as
\* they were.
C8_AutoPostedImmutable ==
  [][/\ \A i \in PostingIds : AutoPosted(postings, i) => (i \in DOMAIN postings' /\ postings'[i] = postings[i])
     /\ \A r \in ReqIds, i \in PostingIds :
          (AutoPosted(postings, i) /\ (Arrives(r, "put_payment", i) \/ Arrives(r, "delete_payment", i)))
            => /\ req'[r].pc = "done"
               /\ req'[r].status = 400
               /\ postings' = postings
               /\ claims' = claims
               /\ tx' = tx]_vars

\* C8 witness: an update and a delete of the auto-posted posting have both been rejected
C8_Witness ==
  /\ AutoPosted(postings, 1)
  /\ \E r, o \in ReqIds :
       /\ req[r].pc = "done" /\ req[r].op = "put_payment" /\ req[r].id = 1 /\ req[r].status = 400
       /\ req[o].pc = "done" /\ req[o].op = "delete_payment" /\ req[o].id = 1 /\ req[o].status = 400

\* ------------------------------------------------ claims (routes/claims.js)
MaxLineItems == 2
MaxClaimId == 4
Now == 1
ChargeInputs == {-5, 0, 10, 20}
AllClaimIds == 1 .. MaxClaimId

\* request bodies: line items numbered from 1, and a total the caller may add
ItemLists ==
  UNION {{[i \in 1 .. n |-> LineItem(i, f[i])] : f \in [1 .. n -> ChargeInputs]} : n \in 0 .. MaxLineItems}

ClaimBodies ==
  [line_items : ItemLists, total_charges : {NULL}]
    \cup {[line_items |-> <<LineItem(1, 10)>>, total_charges |-> 999],
          [line_items |-> <<[LineItem(1, 10) EXCEPT !.service_date = NULL]>>, total_charges |-> NULL]}

\* claimSchema.validate(req.body): line_items .min(1), each with a service_date,
\* a procedure_code and charge_amount .min(0); keys the schema does not name
\* are an error
claimSchema(body) ==
  /\ body.total_charges = NULL
  /\ Len(body.line_items) >= 1
  /\ \A i \in 1 .. Len(body.line_items) :
       /\ body.line_items[i].service_date # NULL
       /\ body.line_items[i].procedure_code # ""
       /\ body.line_items[i].charge_amount >= 0

\* the reduce without its accumulator: (sum, item) => item.charge_amount
totalCharges_LastItemOnly(items) == IF items = <<>> THEN 0 ELSE items[Len(items)].charge_amount

\* value.line_items.reduce((sum, item) => sum + item.charge_amount, 0)
totalCharges(items) == SumSeq([i \in 1 .. Len(items) |-> items[i].charge_amount])

\* the update guard with SUBMITTED let through
CanUpdate_AllowsSubmitted(claim_status) == claim_status \in {"DRAFT", "READY", "SUBMITTED"}

\* PUT /:id: ["DRAFT", "READY"].includes(existingClaim.claim_status)
CanUpdate(claim_status) == claim_status \in {"DRAFT", "READY"}

\* POST /:id/submit: ["DRAFT", "READY"].includes(claim.claim_status)
CanSubmit(claim_status) == claim_status \in {"DRAFT", "READY"}

\* the delete guard copied from the update guard
CanDelete_DraftOrReady(claim_status) == claim_status \in {"DRAFT", "READY"}

\* DELETE /:id: claim.claim_status !== "DRAFT" is refused
CanDelete(claim_status) == claim_status = "DRAFT"

\* the result of the gateway call not looked at
SubmissionSucceeded_Always(result) == TRUE

\* POST /:id/submit: if (submissionResult.success)
SubmissionSucceeded(result) == result.success

\* validateClaimForSubmission, the line-item part: errors.length === 0
\* a validation that lets a charge of 0 pass
LineItemsValid_ZeroCharge(items) ==
  /\ Len(items) # 0
  /\ \A i \in 1 .. Len(items) :
       /\ items[i].procedure_code # ""
       /\ items[i].charge_amount >= 0
       /\ items[i].service_date # NULL

LineItemsValid(items) ==
  /\ Len(items) # 0
  /\ \A i \in 1 .. Len(items) :
       /\ items[i].procedure_code # ""
       /\ items[i].charge_amount > 0
       /\ items[i].service_date # NULL

ClaimUnchanged == UNCHANGED <<postings, nextPostingId, eraVars, audit, serial, authVars>>

\* POST /claims up to the transaction: validate, generateClaimNumber, total
CreateClaim(r, body) ==
  /\ Free(r)
  /\ nextClaimId + Cardinality({o \in ReqIds : req[o].pc = "insert_claim"}) <= MaxClaimId
  /\ ops' = ops + 1
  /\ req' = [req EXCEPT ![r] =
       IF ~claimSchema(body) THEN Answer("create_claim", 0, 400, "validation")
       ELSE [Idle EXCEPT !.op = "create_claim", !.pc = "insert_claim", !.body = body,
                         !.total_charges = totalCharges(body.line_items)]]
  /\ UNCHANGED <<claims, line_items, nextClaimId, tx, gateway>>
  /\ ClaimUnchanged

\* POST /claims: beginTransaction, INSERT INTO claims (... claim_status: "DRAFT")
CreateClaimInsert(r) ==
  /\ req[r].pc = "insert_claim"
  /\ nextClaimId <= MaxClaimId
  /\ tx' = [tx EXCEPT ![r] =
       [BeginTx EXCEPT !.cl_rows = (nextClaimId :>
                          ClaimRow(nextClaimId, "DRAFT", req[r].total_charges, 0, 0, NULL, NULL)),
                       !.li_rows = (nextClaimId :> <<>>),
                       !.locks = {<<"cl", nextClaimId>>}]]
  /\ req' = [req EXCEPT ![r].pc = "items", ![r].id = nextClaimId, ![r].k = 1]
  /\ nextClaimId' = nextClaimId + 1
  /\ UNCHANGED <<claims, line_items, ops, gateway>>
  /\ ClaimUnchanged

\* POST /claims and PUT /claims/:id: one turn of the loop
\* for (const lineItem of value.line_items) INSERT INTO claim_line_items
InsertLineItem(r) ==
  /\ req[r].pc = "items"
  /\ LET c == req[r].id
         items == req[r].body.line_items
     IN IF req[r].k > Len(items)
        THEN /\ req' = [req EXCEPT ![r].pc = "commit"]
             /\ tx' = tx
        ELSE IF c \notin DOMAIN ViewClaims(r)
        THEN \* the foreign key on claim_id fails: rollback, 500
             /\ req' = [req EXCEPT ![r] = Respond(r, 500)]
             /\ tx' = [tx EXCEPT ![r] = NoTx]
        ELSE /\ ~LockedByOther(r, <<"li", c>>)
             /\ req' = [req EXCEPT ![r].k = req[r].k + 1]
             /\ tx' = [tx EXCEPT ![r].li_rows =
                         Merge(tx[r].li_rows, c :> Append(ViewLineItems(r)[c], items[req[r].k])),
                       ![r].locks = tx[r].locks \cup {<<"li", c>>}]
  /\ UNCHANGED <<claims, line_items, nextClaimId, ops, gateway>>
  /\ ClaimUnchanged

\* PUT /claims/:id up to the transaction: findById, status guard, validate, total
UpdateClaim(r, id, body) ==
  /\ Free(r)
  /\ ops' = ops + 1
  /\ req' = [req EXCEPT ![r] =
       IF id \notin DOMAIN claims THEN Answer("update_claim", id, 404, "not found")
       ELSE IF ~CanUpdate(claims[id].claim_status)
            THEN Answer("update_claim", id, 400, "Cannot update submitted claim")
       ELSE IF ~claimSchema(body) THEN Answer("update_claim", id, 400, "validation")
       ELSE [Idle EXCEPT !.op = "update_claim", !.pc = "update_claim", !.id = id, !.body = body,
                         !.total_charges = totalCharges(body.line_items)]]
  /\ UNCHANGED <<claims, line_items, nextClaimId, tx, gateway>>
  /\ ClaimUnchanged

\* PUT /claims/:id: beginTransaction, UPDATE claims SET ..., total_charges = ? WHERE id = ?
UpdateClaimRow(r) ==
  /\ req[r].pc = "update_claim"
  /\ ~LockedByOther(r, <<"cl", req[r].id>>)
  /\ LET c == req[r].id
     IN tx' = [tx EXCEPT ![r] =
          IF c \in DOMAIN claims
          THEN [BeginTx EXCEPT !.cl_rows = (c :> [claims[c] EXCEPT !.total_charges = req[r].total_charges]),
                               !.locks = {<<"cl", c>>}]
          ELSE BeginTx]
  /\ req' = [req EXCEPT ![r].pc = "delete_items"]
  /\ UNCHANGED <<claims, line_items, nextClaimId, ops, gateway>>
  /\ ClaimUnchanged

\* a DELETE that removes one row of the claim only (DELETE ... LIMIT 1)
DeleteLineItems_OneRow(rows) == IF rows = <<>> THEN <<>> ELSE Tail(rows)

\* the claim's line items left by DELETE FROM claim_line_items WHERE claim_id = ?
DeleteLineItems(rows) == <<>>

\* PUT /claims/:id: DELETE FROM claim_line_items WHERE claim_id = ?
UpdateClaimDeleteItems(r) ==
  /\ req[r].pc = "delete_items"
  /\ ~LockedByOther(r, <<"li", req[r].id>>)
  /\ tx' = [tx EXCEPT ![r].li_rows =
              Merge(tx[r].li_rows, req[r].id :> DeleteLineItems(ViewLineItems(r)[req[r].id])),
                      ![r].locks = tx[r].locks \cup {<<"li", req[r].id>>}]
  /\ req' = [req EXCEPT ![r].pc = "items", ![r].k = 1]
  /\ UNCHANGED <<claims, line_items, nextClaimId, ops, gateway>>
  /\ ClaimUnchanged

\* POST /claims/:id/submit: findById and the status guard
SubmitClaim(r, id) ==
  /\ Free(r)
  /\ ops' = ops + 1
  /\ req' = [req EXCEPT ![r] =
       IF id \notin DOMAIN claims THEN Answer("submit_claim", id, 404, "not found")
       ELSE IF ~CanSubmit(claims[id].claim_status)
            THEN Answer("submit_claim", id, 400, "Claim cannot be submitted in current status")
       ELSE [Idle EXCEPT !.op = "submit_claim", !.pc = "validate", !.id = id]]
  /\ UNCHANGED <<claims, line_items, nextClaimId, tx, gateway>>
  /\ ClaimUnchanged

\* POST /claims/:id/submit: validateClaimForSubmission(id)
SubmitValidate(r) ==
  /\ req[r].pc = "validate"
  /\ req' = [req EXCEPT ![r] =
       IF req[r].id \in DOMAIN claims /\ LineItemsValid(line_items[req[r].id])
       THEN [req[r] EXCEPT !.pc = "gateway"]
       ELSE Answer("submit_claim", req[r].id, 400, "Claim validation failed")]
  /\ UNCHANGED <<claims, line_items, nextClaimId, tx, ops, gateway>>
  /\ ClaimUnchanged

\* POST /claims/:id/submit: getFullClaimData, ClearinghouseService.submitClaim;
\* the gateway accepts, or fails or times out (submitClaim's catch)
SubmitGateway(r) ==
  /\ req[r].pc = "gateway"
  /\ \E accepted \in BOOLEAN :
       LET result == IF accepted
                     THEN [success |-> TRUE, clearinghouse_id |-> gateway.accepted + 1]
                     ELSE NoResult
       IN /\ gateway' = [calls |-> gateway.calls + 1,
                         accepted |-> IF accepted THEN gateway.accepted + 1 ELSE gateway.accepted]
          /\ req' = [req EXCEPT ![r] =
               IF SubmissionSucceeded(result)
               THEN [req[r] EXCEPT !.pc = "mark_submitted", !.submissionResult = result]
               ELSE Answer("submit_claim", req[r].id, 400, "Claim submission failed")]
  /\ UNCHANGED <<claims, line_items, nextClaimId, tx, ops>>
  /\ ClaimUnchanged

\* POST /claims/:id/submit: Database.update("claims", id, {claim_status: "SUBMITTED", ...})
SubmitUpdate(r) ==
  /\ req[r].pc = "mark_submitted"
  /\ LockFree(<<"cl", req[r].id>>)
  /\ LET c == req[r].id
     IN claims' = IF c \in DOMAIN claims
                  THEN [claims EXCEPT ![c].claim_status = "SUBMITTED",
                                      ![c].submission_date = Now,
                                      ![c].clearinghouse_id = req[r].submissionResult.clearinghouse_id]
                  ELSE claims
  /\ audit' = auditLog(audit)
  /\ req' = [req EXCEPT ![r] = Respond(r, IF auditLogThrows(audit) THEN 500 ELSE 200)]
  /\ UNCHANGED <<line_items, nextClaimId, tx, ops, gateway, postings, nextPostingId, eraVars, serial, authVars>>

\* DELETE /claims/:id: findById and the status guard
DeleteClaim(r, id) ==
  /\ Free(r)
  /\ ops' = ops + 1
  /\ req' = [req EXCEPT ![r] =
       IF id \notin DOMAIN claims THEN Answer("delete_claim", id, 404, "not found")
       ELSE IF ~CanDelete(claims[id].claim_status)
            THEN Answer("delete_claim", id, 400, "Only draft claims can be deleted")
       ELSE [Idle EXCEPT !.op = "delete_claim", !.pc = "delete_claim_items", !.id = id]]
  /\ UNCHANGED <<claims, line_items, nextClaimId, tx, gateway>>
  /\ ClaimUnchanged

\* DELETE /claims/:id: beginTransaction, DELETE FROM claim_line_items WHERE claim_id = ?
DeleteClaimItems(r) ==
  /\ req[r].pc = "delete_claim_items"
  /\ ~LockedByOther(r, <<"li", req[r].id>>)
  /\ tx' = [tx EXCEPT ![r] = [BeginTx EXCEPT !.li_rows = (req[r].id :> <<>>),
                                             !.locks = {<<"li", req[r].id>>}]]
  /\ req' = [req EXCEPT ![r].pc = "delete_claim_row"]
  /\ UNCHANGED <<claims, line_items, nextClaimId, ops, gateway>>
  /\ ClaimUnchanged

\* DELETE /claims/:id: DELETE FROM claims WHERE id = ?
DeleteClaimRow(r) ==
  /\ req[r].pc = "delete_claim_row"
  /\ ~LockedByOther(r, <<"cl", req[r].id>>)
  /\ LET c == req[r].id
     IN IF \E i \in DOMAIN postings : postings[i].claim_id = c
        THEN \* payment_postings.claim_id references the row: rollback, 500
             /\ tx' = [tx EXCEPT ![r] = NoTx]
             /\ req' = [req EXCEPT ![r] = Respond(r, 500)]
        ELSE /\ tx' = [tx EXCEPT ![r].cl_del = {c} \cap DOMAIN claims,
                                 ![r].locks = tx[r].locks \cup {<<"cl", c>>}]
             /\ req' = [req EXCEPT ![r].pc = "commit"]
  /\ UNCHANGED <<claims, line_items, nextClaimId, ops, gateway>>
  /\ ClaimUnchanged

\* ------------------------------------------------- claims: specification
\* a draft claim, a ready claim and a submitted claim, each with the total of
\* its line items
ClaimTables ==
  /\ claims = (1 :> ClaimRow(1, "DRAFT", 30, 0, 0, NULL, NULL)
               @@ 2 :> ClaimRow(2, "READY", 20, 0, 0, NULL, NULL)
               @@ 3 :> ClaimRow(3, "SUBMITTED", 10, 0, 0, Now, 1))
  /\ line_items = [c \in AllClaimIds |->
                     CASE c = 1 -> <<LineItem(1, 10), LineItem(2, 20)>>
                       [] c = 2 -> <<LineItem(1, 20)>>
                       [] c = 3 -> <<LineItem(1, 10)>>
                       [] OTHER -> <<>>]
  /\ postings = EmptyFn
  /\ nextPostingId = 1
  /\ nextClaimId = 4
  /\ req = [r \in ReqIds |-> Idle]
  /\ tx = [r \in ReqIds |-> NoTx]
  /\ ops = 0
  /\ gateway = [calls |-> 1, accepted |-> 1]
  /\ EraIdle

InitClaims == ClaimTables /\ serial = FALSE /\ AuditWorks /\ AuthIdle

InitClaimsSeq == ClaimTables /\ serial = TRUE /\ AuditWorks /\ AuthIdle

NextClaims ==
  \/ \E r \in ReqIds, body \in ClaimBodies : CreateClaim(r, body)
  \/ \E r \in ReqIds : CreateClaimInsert(r)
  \/ \E r \in ReqIds : InsertLineItem(r)
  \/ \E r \in ReqIds, id \in AllClaimIds, body \in ClaimBodies : UpdateClaim(r, id, body)
  \/ \E r \in ReqIds : UpdateClaimRow(r)
  \/ \E r \in ReqIds : UpdateClaimDeleteItems(r)
  \/ \E r \in ReqIds, id \in AllClaimIds : SubmitClaim(r, id)
  \/ \E r \in ReqIds : SubmitValidate(r)
  \/ \E r \in ReqIds : SubmitGateway(r)
  \/ \E r \in ReqIds : SubmitUpdate(r)
  \/ \E r \in ReqIds, id \in AllClaimIds : DeleteClaim(r, id)
  \/ \E r \in ReqIds : DeleteClaimItems(r)
  \/ \E r \in ReqIds : DeleteClaimRow(r)
  \/ \E r \in ReqIds : Commit(r)
  \/ \E r \in ReqIds : Rollback(r)

\* claim requests handled concurrently
SpecClaims == InitClaims /\ [][NextClaims]_vars

\* claim requests handled one after the other
SpecClaimsSeq == InitClaimsSeq /\ [][NextClaims]_vars

\* --------------------------------------------------------- claims: claims
ChargeSum(items) == SumSeq([i \in 1 .. Len(items) |-> items[i].charge_amount])

Finished(r, op, code) == req[r].pc = "done" /\ req[r].op = op /\ req[r].status = code

\* C3: when a claim create or a claim update commits, the stored total_charges
\* of the claim is the sum of charge_amount over the line items stored for it,
\* and those are the line items of the request; no total from the caller is stored.
C3_TotalChargesIsLineItemSum ==
  [][\A r \in ReqIds :
       (Commits(r) /\ req[r].op \in {"create_claim", "update_claim"} /\ req[r].id \in DOMAIN claims')
         => /\ claims'[req[r].id].total_charges = ChargeSum(line_items'[req[r].id])
            /\ line_items'[req[r].id] = req[r].body.line_items
            /\ req[r].body.total_charges = NULL]_vars

\* C3 witness: a create and an update have both committed, the update on a
\* claim that now has two line items whose charges differ
C3_Witness ==
  \E r, o \in ReqIds :
    /\ Finished(r, "create_claim", 201) /\ req[r].id \in DOMAIN claims
    /\ Finished(o, "update_claim", 200) /\ req[o].id \in DOMAIN claims
    /\ Len(line_items[req[o].id]) = 2
    /\ line_items[req[o].id][1].charge_amount # line_items[req[o].id][2].charge_amount
    /\ claims[req[o].id].total_charges = 30

\* C4: once a claim is SUBMITTED, no step changes its line items or its
\* total_charges or removes its row, whatever the interleaving of update,
\* delete and submit requests.
C4_SubmittedIsFrozen ==
  [][\A c \in DOMAIN claims :
       claims[c].claim_status = "SUBMITTED"
         => /\ c \in DOMAIN claims'
            /\ claims'[c].total_charges = claims[c].total_charges
            /\ line_items'[c] = line_items[c]]_vars

Untouched == claims' = claims /\ line_items' = line_items /\ gateway' = gateway /\ tx' = tx

\* C5: a submit request on a claim whose status is neither DRAFT nor READY is
\* answered 400 at once with no gateway call and nothing stored changed; a
\* delete request on a claim whose status is not DRAFT likewise.
C5_SubmitDeleteGuards ==
  [][\A r \in ReqIds, c \in DOMAIN claims :
       /\ (Arrives(r, "submit_claim", c) /\ claims[c].claim_status \notin {"DRAFT", "READY"})
            => (req'[r].pc = "done" /\ req'[r].status = 400 /\ Untouched)
       /\ (Arrives(r, "delete_claim", c) /\ claims[c].claim_status # "DRAFT")
            => (req'[r].pc = "done" /\ req'[r].status = 400 /\ Untouched)]_vars

\* C5 witness: a submit of the SUBMITTED claim and a delete of the READY claim
\* have both been refused
C5_Witness ==
  \E r, o \in ReqIds :
    /\ Finished(r, "submit_claim", 400) /\ req[r].id = 3 /\ claims[3].claim_status = "SUBMITTED"
    /\ Finished(o, "delete_claim", 400) /\ req[o].id = 2 /\ claims[2].claim_status = "READY"

\* C6: an update request on a claim whose status is neither DRAFT nor READY is
\* answered 400 at once and leaves the claim row and every line item as they were.
C6_UpdateGuard ==
  [][\A r \in ReqIds, c \in DOMAIN claims :
       (Arrives(r, "update_claim", c) /\ claims[c].claim_status \notin {"DRAFT", "READY"})
         => (req'[r].pc = "done" /\ req'[r].status = 400 /\ Untouched)]_vars

\* C6 witness: an update of the SUBMITTED claim has been refused
C6_Witness ==
  \E r \in ReqIds :
    /\ Finished(r, "update_claim", 400) /\ req[r].id = 3
    /\ req[r].error = "Cannot update submitted claim"
    /\ claims[3].claim_status = "SUBMITTED" /\ line_items[3] = <<LineItem(1, 10)>>

\* C7: a claim becomes SUBMITTED only in the step of a submit request whose
\* gateway call the clearinghouse accepted, and then carries a submission_date
\* and the gateway's tracking id; a gateway call that fails or times out
\* changes no claim and is answered with the gateway error.
C7_SubmittedOnlyOnGatewaySuccess ==
  [][/\ \A c \in DOMAIN claims' :
          (claims'[c].claim_status = "SUBMITTED" /\ (c \in DOMAIN claims => claims[c].claim_status # "SUBMITTED"))
            => \E r \in ReqIds :
                 /\ req[r].op = "submit_claim" /\ req[r].id = c /\ req'[r].pc = "done"
                 /\ req[r].submissionResult.success
                 /\ req[r].submissionResult.clearinghouse_id # NULL
                 /\ claims'[c].clearinghouse_id = req[r].submissionResult.clearinghouse_id
                 /\ claims'[c].submission_date # NULL
     /\ (gateway'.calls = gateway.calls + 1 /\ gateway'.accepted = gateway.accepted)
          => /\ claims' = claims
             /\ \E r \in ReqIds :
                  /\ req[r].pc = "gateway" /\ req'[r].pc = "done" /\ req'[r].status = 400
                  /\ req'[r].error = "Claim submission failed"]_vars

\* C7 witness: one submit was refused by the gateway and the claim kept its
\* status; another was accepted and its claim is SUBMITTED with a tracking id
C7_Witness ==
  \E r, o \in ReqIds :
    /\ Finished(r, "submit_claim", 400) /\ req[r].error = "Claim submission failed"
    /\ claims[req[r].id].claim_status \in {"DRAFT", "READY"}
    /\ claims[req[r].id].clearinghouse_id = NULL
    /\ Finished(o, "submit_claim", 200)
    /\ claims[req[o].id].claim_status = "SUBMITTED"
    /\ claims[req[o].id].clearinghouse_id # NULL

\* ------------------------------- remittance parser (services/era-processor.js)
MaxLines == 4
NaN == -1
Undefined == "undefined"

\* how the numeric and date tokens of the remittance lines are spelled
Spelling(tok) ==
  CASE tok = "0" -> <<"0">>
    [] tok = "30" -> <<"3", "0">>
    [] tok = "50" -> <<"5", "0">>
    [] tok = "2024" -> <<"2", "0", "2", "4">>
    [] tok = "20240115" -> <<"2", "0", "2", "4", "0", "1", "1", "5">>
    [] tok = "20240120" -> <<"2", "0", "2", "4", "0", "1", "2", "0">>
    [] tok = "20241301" -> <<"2", "0", "2", "4", "1", "3", "0", "1">>
    [] OTHER -> <<>>

DigitValue(ch) ==
  CASE ch = "0" -> 0 [] ch = "1" -> 1 [] ch = "2" -> 2 [] ch = "3" -> 3 [] ch = "4" -> 4
    [] ch = "5" -> 5 [] ch = "6" -> 6 [] ch = "7" -> 7 [] ch = "8" -> 8 [] ch = "9" -> 9
    [] OTHER -> NaN

RECURSIVE DecimalValue(_)
DecimalValue(chars) ==
  IF chars = <<>> THEN 0
  ELSE 10 * DecimalValue(SubSeq(chars, 1, Len(chars) - 1)) + DigitValue(chars[Len(chars)])

AllDigits(chars) == \A i \in 1 .. Len(chars) : DigitValue(chars[i]) # NaN

\* Number.parseFloat(token), for tokens that are a string of digits or missing
parseFloat(tok) ==
  IF tok = Undefined \/ Spelling(tok) = <<>> \/ ~AllDigits(Spelling(tok)) THEN NaN
  ELSE DecimalValue(Spelling(tok))

\* line.split("*"): segments[k] of a line, undefined past its end
Seg(line, k) == IF k + 1 <= Len(line) THEN line[k + 1] ELSE Undefined

NullDate == [kind |-> "null", year |-> 0, month |-> 0, day |-> 0]

UndefinedDate == [kind |-> "undefined", year |-> 0, month |-> 0, day |-> 0]

\* parseX12Date(dateString)
parseX12Date(dateString) ==
  IF dateString = Undefined \/ Len(Spelling(dateString)) # 8 THEN NullDate
  ELSE LET chars == Spelling(dateString)
           year == SubSeq(chars, 1, 4)
           month == SubSeq(chars, 5, 6)
           day == SubSeq(chars, 7, 8)
       IN IF /\ AllDigits(chars)
             /\ DecimalValue(month) \in 1 .. 12
             /\ DecimalValue(day) \in 1 .. 31
          THEN [kind |-> "date", year |-> DecimalValue(year), month |-> DecimalValue(month),
                day |-> DecimalValue(day)]
          ELSE [kind |-> "invalid", year |-> 0, month |-> 0, day |-> 0]

\* statusMap is an object literal: statusMap[key] also finds the properties every
\* object inherits, and their values (functions, the prototype object) are truthy
ObjectPrototypeKeys ==
  {"constructor", "toString", "toLocaleString", "valueOf", "hasOwnProperty",
   "isPrototypeOf", "propertyIsEnumerable", "__proto__"}

InheritedProperty == "[inherited property]"

\* getClaimStatusDescription(statusCode): statusMap[statusCode] || "Unknown Status"
getClaimStatusDescription(statusCode) ==
  CASE statusCode = "1" -> "Processed as Primary"
    [] statusCode = "2" -> "Processed as Secondary"
    [] statusCode = "3" -> "Processed as Tertiary"
    [] statusCode = "4" -> "Denied"
    [] statusCode = "19" -> "Processed as Primary, Forwarded to Additional Payer(s)"
    [] statusCode = "20" -> "Processed as Secondary, Forwarded to Additional Payer(s)"
    [] statusCode = "21" -> "Processed as Tertiary, Forwarded to Additional Payer(s)"
    [] statusCode = "22" -> "Reversal of Previous Payment"
    [] statusCode = "23" -> "Not Our Claim, Forwarded to Additional Payer(s)"
    [] statusCode = "25" -> "Predetermination Pricing Only - No Payment"
    [] statusCode \in ObjectPrototypeKeys -> InheritedProperty
    [] OTHER -> "Unknown Status"

\* parseERAFile: const eraData = {era_number: "", ..., claims: []}
NewEraData ==
  [era_number |-> "", payer_id |-> "", payer_name |-> "", check_number |-> "",
   check_date |-> NullDate, check_amount |-> 0, claims |-> <<>>]

\* parseERAFile, case "CLP": the new currentClaim
NewClaimDetail(segments) ==
  [claim_number |-> Seg(segments, 1),
   claim_status_code |-> Seg(segments, 2),
   total_charge_amount |-> parseFloat(Seg(segments, 3)),
   total_paid_amount |-> parseFloat(Seg(segments, 4)),
   patient_responsibility |-> parseFloat(Seg(segments, 5)),
   claim_status_description |-> getClaimStatusDescription(Seg(segments, 2)),
   patient_name |-> <<>>,
   service_date_from |-> UndefinedDate,
   service_date_to |-> UndefinedDate]

PushCurrentClaim_InFront(eraData, currentClaim) ==
  IF currentClaim # <<>> THEN [eraData EXCEPT !.claims = <<currentClaim[1]>> \o eraData.claims]
  ELSE eraData

\* parseERAFile: if (currentClaim) eraData.claims.push(currentClaim); currentClaim
\* is <<>> for null and <<c>> for an object
PushCurrentClaim(eraData, currentClaim) ==
  IF currentClaim # <<>> THEN [eraData EXCEPT !.claims = Append(eraData.claims, currentClaim[1])]
  ELSE eraData

\* parseERAFile, case "NM1": `${segments[4]} ${segments[3]}`
PatientName(segments) == <<Seg(segments, 4), " ", Seg(segments, 3)>>

\* the lines a remittance file is made of
BprLine == [i \in 1 .. 17 |-> CASE i = 1 -> "BPR" [] i = 3 -> "50" [] i = 17 -> "20240120" [] OTHER -> ""]

EraLines ==
  {BprLine,
   [BprLine EXCEPT ![17] = "20241301"],
   [BprLine EXCEPT ![17] = "2024"],
   <<"BPR", "I", "50">>,
   <<"TRN", "1", "ERA1">>,
   <<"N1", "PR", "ACME">>,
   <<"CLP", "CLM1", "1", "50", "50", "0">>,
   <<"CLP", "CLM2", "4", "30", "0", "0">>,
   <<"CLP", "CLM3", "99", "30", "0", "0">>,
   <<"CLP", "CLM4", "constructor", "30", "0", "0">>,
   <<"CLP">>,
   <<"NM1", "QC", "1", "DOE", "JANE">>,
   <<"NM1", "IL", "1", "ROE", "RICH">>,
   <<"DTM", "232", "20240115">>,
   <<"DTM", "233", "20240120">>,
   <<"SE", "5">>}

ParseUnchanged ==
  UNCHANGED <<claims, postings, nextPostingId, reqVars, era, eras, era_claim_details, denials, settings,
              audit>>

\* parseERAFile: one turn of for (const line of lines), the line read being `segments`
ParseLine(segments) ==
  /\ parse.pc = "lines"
  /\ Len(parse.lines) < MaxLines
  /\ LET segmentId == Seg(segments, 0)
         eraData == parse.eraData
         currentClaim == parse.currentClaim
     IN parse' =
          [parse EXCEPT
             !.lines = Append(parse.lines, segments),
             !.eraData =
               CASE segmentId = "BPR" ->
                      [eraData EXCEPT !.check_amount = parseFloat(Seg(segments, 2)),
                                      !.check_date = parseX12Date(Seg(segments, 16))]
                 [] segmentId = "TRN" -> [eraData EXCEPT !.era_number = Seg(segments, 2)]
                 [] segmentId = "N1" /\ Seg(segments, 1) = "PR" ->
                      [eraData EXCEPT !.payer_name = Seg(segments, 2)]
                 [] segmentId = "CLP" -> PushCurrentClaim(eraData, currentClaim)
                 [] OTHER -> eraData,
             !.currentClaim =
               CASE segmentId = "CLP" -> <<NewClaimDetail(segments)>>
                 [] segmentId = "NM1" /\ currentClaim # <<>> /\ Seg(segments, 1) = "QC" ->
                      <<[currentClaim[1] EXCEPT !.patient_name = PatientName(segments)]>>
                 [] segmentId = "DTM" /\ currentClaim # <<>> /\ Seg(segments, 1) = "232" ->
                      <<[currentClaim[1] EXCEPT !.service_date_from = parseX12Date(Seg(segments, 2))]>>
                 [] segmentId = "DTM" /\ currentClaim # <<>> /\ Seg(segments, 1) = "233" ->
                      <<[currentClaim[1] EXCEPT !.service_date_to = parseX12Date(Seg(segments, 2))]>>
                 [] OTHER -> currentClaim]
  /\ ParseUnchanged

\* parseERAFile after the loop: push the pending claim, return eraData
ParseEnd ==
  /\ parse.pc = "lines"
  /\ parse' = [parse EXCEPT !.pc = "parsed",
                            !.eraData = PushCurrentClaim(parse.eraData, parse.currentClaim),
                            !.currentClaim = <<>>]
  /\ ParseUnchanged

\* ------------------------------------------- remittance parser: specification
InitParse ==
  /\ claims = EmptyFn
  /\ line_items = EmptyFn
  /\ postings = EmptyFn
  /\ nextPostingId = 1
  /\ nextClaimId = 1
  /\ req = [r \in ReqIds |-> Idle]
  /\ tx = [r \in ReqIds |-> NoTx]
  /\ ops = 0
  /\ gateway = [calls |-> 0, accepted |-> 0]
  /\ serial = TRUE
  /\ parse = [pc |-> "lines", lines |-> <<>>, eraData |-> NewEraData, currentClaim |-> <<>>]
  /\ era = NoEra
  /\ eras = EmptyFn
  /\ era_claim_details = <<>>
  /\ denials = <<>>
  /\ settings = EmptyFn
  /\ AuditWorks /\ AuthIdle

NextParse ==
  \/ \E segments \in EraLines : ParseLine(segments)
  \/ ParseEnd

\* parseERAFile run on every text of at most MaxLines lines
SpecParse == InitParse /\ [][NextParse]_vars

\* ----------------------------------------------- remittance parser: claims
\* the positions of the CLP records of a text
ClpLines(lines) == {i \in 1 .. Len(lines) : lines[i][1] = "CLP"}

\* the position of the k-th CLP record
NthClp(lines, k) ==
  CHOOSE i \in ClpLines(lines) : Cardinality({j \in ClpLines(lines) : j <= i}) = k

\* the positions after the k-th CLP record and before the next one
BlockOf(lines, k) ==
  {j \in (NthClp(lines, k) + 1) .. Len(lines) :
     \A c \in ClpLines(lines) : c > NthClp(lines, k) => j < c}

\* the records of a block with the given tag and qualifier
Qualified(lines, block, tag, qualifier) ==
  {j \in block : lines[j][1] = tag /\ Len(lines[j]) >= 2 /\ lines[j][2] = qualifier}

LastOf(S) == CHOOSE i \in S : \A j \in S : j <= i

\* the calendar day an eight-digit date field names
DayNamed(field) ==
  CASE field = "20240115" -> [kind |-> "date", year |-> 2024, month |-> 1, day |-> 15]
    [] field = "20240120" -> [kind |-> "date", year |-> 2024, month |-> 1, day |-> 20]

\* C9: parseERAFile on a text with N CLP records returns exactly N claim details in
\* the order of their CLP records; each detail carries the patient name of the
\* NM1(QC) record and the service dates of the DTM(232)/DTM(233) records found after
\* its CLP record and before the next one, and nothing from any other record (so
\* records before the first CLP record attach to no detail).
C9_DetailsFollowClpRecords ==
  parse.pc = "parsed" =>
    LET lines == parse.lines
        details == parse.eraData.claims
    IN /\ Len(details) = Cardinality(ClpLines(lines))
       /\ \A k \in 1 .. Len(details) :
            LET clp == lines[NthClp(lines, k)]
                block == BlockOf(lines, k)
                names == Qualified(lines, block, "NM1", "QC")
                froms == Qualified(lines, block, "DTM", "232")
                tos == Qualified(lines, block, "DTM", "233")
            IN /\ details[k].claim_number = (IF Len(clp) >= 2 THEN clp[2] ELSE Undefined)
               /\ IF names = {} THEN details[k].patient_name = <<>>
                  ELSE LET nm1 == lines[LastOf(names)]
                       IN details[k].patient_name \in
                            {<<nm1[5], " ", nm1[4]>>, <<nm1[4], " ", nm1[5]>>}
               /\ details[k].service_date_from =
                    (IF froms = {} THEN UndefinedDate ELSE DayNamed(lines[LastOf(froms)][3]))
               /\ details[k].service_date_to =
                    (IF tos = {} THEN UndefinedDate ELSE DayNamed(lines[LastOf(tos)][3]))

\* a text of two CLP records, the first followed by its patient name and a service
\* date, has been parsed into two details
C9_Witness ==
  /\ parse.pc = "parsed"
  /\ Len(parse.lines) = 4
  /\ parse.lines[1] = <<"CLP", "CLM2", "4", "30", "0", "0">>
  /\ parse.lines[2] = <<"NM1", "QC", "1", "DOE", "JANE">>
  /\ parse.lines[3] = <<"DTM", "232", "20240115">>
  /\ parse.lines[4] = <<"CLP", "CLM1", "1", "50", "50", "0">>
  /\ Len(parse.eraData.claims) = 2
  /\ parse.eraData.claims[1].claim_number = "CLM2"
  /\ parse.eraData.claims[1].service_date_from.day = 15
  /\ parse.eraData.claims[2].patient_name = <<>>

\* --------------------------- remittance processing (services/era-processor.js)
MaxDetails == 2

mapERAStatusToClaimStatus_PrimaryAccepted(eraStatusCode) ==
  CASE eraStatusCode \in {"1", "25"} -> "ACCEPTED"
    [] eraStatusCode \in {"2", "3", "19", "20", "21", "22"} -> "PAID"
    [] eraStatusCode = "4" -> "DENIED"
    [] eraStatusCode = "23" -> "REJECTED"
    [] eraStatusCode \in ObjectPrototypeKeys -> InheritedProperty
    [] OTHER -> "SUBMITTED"

\* mapERAStatusToClaimStatus(eraStatusCode): statusMap[eraStatusCode] || "SUBMITTED"
mapERAStatusToClaimStatus(eraStatusCode) ==
  CASE eraStatusCode \in {"1", "2", "3"} -> "PAID"
    [] eraStatusCode = "4" -> "DENIED"
    [] eraStatusCode \in {"19", "20", "21", "22"} -> "PAID"
    [] eraStatusCode = "23" -> "REJECTED"
    [] eraStatusCode = "25" -> "ACCEPTED"
    [] eraStatusCode \in ObjectPrototypeKeys -> InheritedProperty
    [] OTHER -> "SUBMITTED"

\* a denial test that knows code "4" only
isClaimDenied_OnlyFour(statusCode) == statusCode = "4"

isClaimDenied(statusCode) == statusCode \in {"4", "23"}

\* a classification that tests the eligibility list first
categorizeDenial_EligibilityFirst(reasonCode) ==
  IF reasonCode \in {"27", "29", "30", "31"} THEN "ELIGIBILITY"
  ELSE IF reasonCode \in {"16", "18", "26", "27"} THEN "TECHNICAL"
  ELSE IF reasonCode \in {"11", "12", "13", "14", "15"} THEN "CLINICAL"
  ELSE IF reasonCode \in {"52", "53", "54", "55", "56"} THEN "AUTHORIZATION"
  ELSE "OTHER"

categorizeDenial(reasonCode) ==
  IF reasonCode \in {"16", "18", "26", "27"} THEN "TECHNICAL"
  ELSE IF reasonCode \in {"11", "12", "13", "14", "15"} THEN "CLINICAL"
  ELSE IF reasonCode \in {"52", "53", "54", "55", "56"} THEN "AUTHORIZATION"
  ELSE IF reasonCode \in {"27", "29", "30", "31"} THEN "ELIGIBILITY"
  ELSE "OTHER"

\* a high-priority list that holds the payer status code "4" as well
getDenialPriority_FourIsHigh(reasonCode) ==
  IF reasonCode \in {"16", "18"} THEN "URGENT"
  ELSE IF reasonCode \in {"4", "11", "12", "27", "29"} THEN "HIGH"
  ELSE "MEDIUM"

getDenialPriority(reasonCode) ==
  IF reasonCode \in {"16", "18"} THEN "URGENT"
  ELSE IF reasonCode \in {"11", "12", "27", "29"} THEN "HIGH"
  ELSE "MEDIUM"

\* an appeal window of 30 days
calculateAppealDeadline_ThirtyDays == Now + 30

\* calculateAppealDeadline(): new Date(), setDate(getDate() + 90)
calculateAppealDeadline == Now + 90

calculateFollowUpDate == Now + 14

isAutoPostingEnabled_DefaultOn ==
  IF "era_auto_posting_enabled" \in DOMAIN settings
  THEN settings["era_auto_posting_enabled"] = "true"
  ELSE TRUE

\* isAutoPostingEnabled(): setting ? setting.setting_value === "true" : false
isAutoPostingEnabled ==
  IF "era_auto_posting_enabled" \in DOMAIN settings
  THEN settings["era_auto_posting_enabled"] = "true"
  ELSE FALSE

\* Database.findOne("claims", {claim_number}): the id of a stored claim with that
\* number, NULL when there is none
\* a lookup that falls back to some stored claim when no claim_number is equal
FindClaimByNumber_AnyClaim(number) ==
  IF \E c \in DOMAIN claims : claims[c].claim_number = number
  THEN CHOOSE c \in DOMAIN claims : claims[c].claim_number = number
  ELSE CHOOSE c \in DOMAIN claims : TRUE

FindClaimByNumber(number) ==
  IF \E c \in DOMAIN claims : claims[c].claim_number = number
  THEN CHOOSE c \in DOMAIN claims : claims[c].claim_number = number
  ELSE NULL

\* the status codes a CLP record may carry
EraStatusCodes ==
  {"1", "2", "3", "4", "19", "20", "21", "22", "23", "25", "99", "0", "01", "", "constructor"}

\* the claim details parseERAFile hands over: each is what a CLP record parses to,
\* with or without the patient name and service dates of its NM1 and DTM records
WithPatient(detail) ==
  [detail EXCEPT !.patient_name = PatientName(<<"NM1", "QC", "1", "DOE", "JANE">>),
                 !.service_date_from = parseX12Date("20240115"),
                 !.service_date_to = parseX12Date("20240120")]

EraDetails ==
  {WithPatient(NewClaimDetail(<<"CLP", "CLM1", code, "50", "0", "0">>)) : code \in EraStatusCodes}
  \cup {WithPatient(NewClaimDetail(<<"CLP", "CLM1", code, "50", "50", "0">>)) :
          code \in {"1", "4", "23", "99"}}
  \cup {WithPatient(NewClaimDetail(<<"CLP", "CLM9", "1", "50", "50", "0">>)),
        WithPatient(NewClaimDetail(<<"CLP", "CLM2", "1", "30", "30", "0">>)),
        WithPatient(NewClaimDetail(<<"CLP", "CLM2", "99", "30", "0", "0">>)),
        NewClaimDetail(<<"CLP", "CLM1", "1", "50", "50", "0">>),
        NewClaimDetail(<<"CLP", "CLM1", "4", "50", "0", "0">>)}

\* eraData.claims: the claim details of one remittance file, in file order
EraFiles == UNION {[1 .. n -> EraDetails] : n \in 0 .. MaxDetails}

EraUnchanged == UNCHANGED <<reqVars, parse, audit>>

\* a table eras without the unique key on era_number
EraNumberTaken_NoUniqueKey(era_number) == FALSE

\* era_number VARCHAR(50) UNIQUE NOT NULL: the INSERT of a stored number is rejected
EraNumberTaken(era_number) == \E e \in DOMAIN eras : eras[e].era_number = era_number

\* processERAFile up to the loop, for a file whose TRN record carries era_number:
\* read and parse the file, Database.create("eras"); a rejected INSERT is caught
\* and reported as failure
ProcessERAFile(era_number, details) ==
  /\ era.pc = "none"
  /\ LET eraId == Cardinality(DOMAIN eras) + 1
         started == [pc |-> "loop", eraId |-> eraId, era_number |-> era_number, details |-> details,
                     count |-> 0, claimDetail |-> <<>>, claim |-> NULL, claim_status |-> "",
                     success |-> FALSE]
     IN IF EraNumberTaken(era_number)
        THEN /\ eras' = eras
             /\ era' = [started EXCEPT !.pc = "failed", !.eraId = NULL]
        ELSE /\ eras' = Merge(eras, [e \in {eraId} |->
                                       [era_number |-> era_number, processing_status |-> "PROCESSING"]])
             /\ era' = started
  /\ UNCHANGED <<claims, postings, nextPostingId, era_claim_details, denials, settings>>
  /\ EraUnchanged

\* processERAFile up to the loop, for the remittance file numbered ERA1
StoreEraRecord(details) == ProcessERAFile("ERA1", details)

\* processERAClaim(eraId, claimDetail), first statement: Database.findOne("claims")
ProcessERAClaim(claimDetail) ==
  /\ era.pc = "loop"
  /\ era.count < Len(era.details)
  /\ claimDetail = era.details[era.count + 1]
  /\ era' = [era EXCEPT !.pc = "create_detail", !.claimDetail = <<claimDetail>>,
                        !.claim = FindClaimByNumber(claimDetail.claim_number)]
  /\ UNCHANGED <<claims, postings, nextPostingId, eras, era_claim_details, denials, settings>>
  /\ EraUnchanged

\* processERAClaim: Database.create("era_claim_details"); without a matching claim
\* the detail is done
CreateEraClaimDetail ==
  /\ era.pc = "create_detail"
  /\ LET claimDetail == era.claimDetail[1]
     IN era_claim_details' =
          Append(era_claim_details,
                 [era_id |-> era.eraId, claim_id |-> era.claim,
                  claim_number |-> claimDetail.claim_number,
                  patient_name |-> claimDetail.patient_name,
                  service_date_from |-> claimDetail.service_date_from,
                  service_date_to |-> claimDetail.service_date_to,
                  total_charge_amount |-> claimDetail.total_charge_amount,
                  total_paid_amount |-> claimDetail.total_paid_amount,
                  patient_responsibility |-> claimDetail.patient_responsibility,
                  claim_status_code |-> claimDetail.claim_status_code,
                  claim_status_description |-> claimDetail.claim_status_description])
  /\ era' = IF era.claim = NULL
            THEN [era EXCEPT !.pc = "loop", !.count = era.count + 1]
            ELSE [era EXCEPT !.pc = "auto_posting"]
  /\ UNCHANGED <<claims, postings, nextPostingId, eras, denials, settings>>
  /\ EraUnchanged

\* processERAClaim: autoPostingEnabled && claimDetail.total_paid_amount > 0
CheckAutoPosting ==
  /\ era.pc = "auto_posting"
  /\ era' = [era EXCEPT !.pc = IF isAutoPostingEnabled /\ era.claimDetail[1].total_paid_amount > 0
                               THEN "auto_post" ELSE "map_status"]
  /\ UNCHANGED <<claims, postings, nextPostingId, eras, era_claim_details, denials, settings>>
  /\ EraUnchanged

\* autoPostPayment(claimId, eraId, claimDetail)
AutoPostPayment ==
  /\ era.pc = "auto_post"
  /\ postings' = Merge(postings,
                       [i \in {nextPostingId} |->
                          [claim_id |-> era.claim, payment_type |-> "INSURANCE",
                           payment_method |-> "ERA",
                           payment_amount |-> era.claimDetail[1].total_paid_amount,
                           posted_by |-> NULL]])
  /\ nextPostingId' = nextPostingId + 1
  /\ era' = [era EXCEPT !.pc = "map_status"]
  /\ UNCHANGED <<claims, eras, era_claim_details, denials, settings>>
  /\ EraUnchanged

\* processERAClaim: the arguments of Database.update("claims", claim.id, {...})
MapStatus ==
  /\ era.pc = "map_status"
  /\ era' = [era EXCEPT !.pc = "update_claim",
                        !.claim_status = mapERAStatusToClaimStatus(era.claimDetail[1].claim_status_code)]
  /\ UNCHANGED <<claims, postings, nextPostingId, eras, era_claim_details, denials, settings>>
  /\ EraUnchanged

\* processERAClaim: Database.update("claims", claim.id, {...}); a value that is no
\* claim status cannot be stored
UpdateClaimFromEra ==
  /\ era.pc = "update_claim"
  /\ era.claim_status # InheritedProperty
  /\ LockFree(<<"cl", era.claim>>)
  /\ claims' = [claims EXCEPT ![era.claim].claim_status = era.claim_status,
                              ![era.claim].total_paid = era.claimDetail[1].total_paid_amount,
                              ![era.claim].patient_responsibility =
                                era.claimDetail[1].patient_responsibility]
  /\ era' = [era EXCEPT !.pc = "denial"]
  /\ UNCHANGED <<postings, nextPostingId, eras, era_claim_details, denials, settings>>
  /\ EraUnchanged

\* createDenialRecord(claimId, claimDetail): the row of Database.create("denials")
denialData(claimId, claimDetail) ==
  [claim_id |-> claimId, denial_date |-> Now,
   denial_reason_code |-> claimDetail.claim_status_code,
   denial_reason_description |-> claimDetail.claim_status_description,
   denial_category |-> categorizeDenial(claimDetail.claim_status_code),
   priority |-> getDenialPriority(claimDetail.claim_status_code),
   resolution_status |-> "OPEN",
   appeal_deadline |-> calculateAppealDeadline,
   follow_up_date |-> calculateFollowUpDate]

\* processERAClaim: if (isClaimDenied(code)) createDenialRecord(claim.id, claimDetail)
CreateDenialIfDenied ==
  /\ era.pc = "denial"
  /\ LET claimDetail == era.claimDetail[1]
     IN denials' = IF isClaimDenied(claimDetail.claim_status_code)
                   THEN Append(denials, denialData(era.claim, claimDetail))
                   ELSE denials
  /\ era' = [era EXCEPT !.pc = "loop", !.count = era.count + 1]
  /\ UNCHANGED <<claims, postings, nextPostingId, eras, era_claim_details, settings>>
  /\ EraUnchanged

\* processERAFile after the loop: Database.update("eras", eraId, {POSTED}), success
FinishEra ==
  /\ era.pc = "loop"
  /\ era.count = Len(era.details)
  /\ eras' = [eras EXCEPT ![era.eraId].processing_status = "POSTED"]
  /\ era' = [era EXCEPT !.pc = "done", !.success = TRUE]
  /\ UNCHANGED <<claims, postings, nextPostingId, era_claim_details, denials, settings>>
  /\ EraUnchanged

\* a statement of processERAClaim or the final update rejects (a value that cannot
\* be bound or stored, a lost connection): processERAFile catches and reports failure
EraThrow ==
  /\ era.pc \in {"loop", "create_detail", "auto_posting", "auto_post", "update_claim", "denial"}
  /\ era.pc = "loop" => era.count = Len(era.details)
  /\ era' = [era EXCEPT !.pc = "failed", !.success = FALSE]
  /\ UNCHANGED <<claims, postings, nextPostingId, eras, era_claim_details, denials, settings>>
  /\ EraUnchanged

\* ------------------------------------- remittance processing: specification
\* the postings made by hand on claim 1 before the remittance arrives
PriorPostings ==
  (1 :> [claim_id |-> 1, payment_type |-> "PATIENT", payment_method |-> "CHECK",
         payment_amount |-> 10, posted_by |-> UserId]
   @@ 2 :> [claim_id |-> 1, payment_type |-> "ADJUSTMENT", payment_method |-> "CHECK",
            payment_amount |-> 5, posted_by |-> UserId])

\* claim 1 is submitted, with no postings or with postings made by hand and the
\* aggregates updateClaimTotals left; claim 2 is a draft
InitEra ==
  /\ \/ /\ postings = EmptyFn
        /\ nextPostingId = 1
        /\ claims = (1 :> ClaimRow("CLM1", "SUBMITTED", 50, 0, 50, Now, 1)
                     @@ 2 :> ClaimRow("CLM2", "DRAFT", 30, 0, 30, NULL, NULL))
     \/ /\ postings = PriorPostings
        /\ nextPostingId = 3
        /\ claims = (1 :> ClaimRow("CLM1", "SUBMITTED", 50, 10, 35, Now, 1)
                     @@ 2 :> ClaimRow("CLM2", "DRAFT", 30, 0, 30, NULL, NULL))
  /\ line_items = (1 :> <<LineItem(1, 50)>> @@ 2 :> <<LineItem(1, 30)>>)
  /\ nextClaimId = 3
  /\ req = [r \in ReqIds |-> Idle]
  /\ tx = [r \in ReqIds |-> NoTx]
  /\ ops = 0
  /\ gateway = [calls |-> 1, accepted |-> 1]
  /\ serial = TRUE
  /\ parse = NoParse
  /\ era = NoEra
  /\ eras = EmptyFn
  /\ era_claim_details = <<>>
  /\ denials = <<>>
  /\ settings \in {EmptyFn} \cup {[k \in {"era_auto_posting_enabled"} |-> v] : v \in {"true", "false"}}
  /\ AuditWorks /\ AuthIdle

NextEra ==
  \/ era.pc = "none" /\ \E details \in EraFiles : StoreEraRecord(details)
  \/ \E claimDetail \in EraDetails : ProcessERAClaim(claimDetail)
  \/ CreateEraClaimDetail
  \/ CheckAutoPosting
  \/ AutoPostPayment
  \/ MapStatus
  \/ UpdateClaimFromEra
  \/ CreateDenialIfDenied
  \/ FinishEra
  \/ EraThrow

\* one remittance of at most MaxDetails claim details processed
SpecEra == InitEra /\ [][NextEra]_vars

\* ------------------------------------------- remittance processing: claims
\* the claim status the table of payer status codes gives, SUBMITTED where the table
\* has no entry
TableStatus(code) ==
  IF code \in {"1", "2", "3", "19", "20", "21", "22"} THEN "PAID"
  ELSE IF code = "4" THEN "DENIED"
  ELSE IF code = "23" THEN "REJECTED"
  ELSE IF code = "25" THEN "ACCEPTED"
  ELSE "SUBMITTED"

\* C10: the claim status applied for a claim detail is a fixed total function of its
\* payer status code: 1, 2, 3 give PAID, 4 gives DENIED, 23 gives REJECTED, 25 gives
\* ACCEPTED, and every code that is not in the table gives SUBMITTED.
C10_StatusIsTableOrSubmitted ==
  /\ era.pc = "update_claim" =>
       era.claim_status = TableStatus(era.claimDetail[1].claim_status_code)
  /\ era.pc = "denial" =>
       claims[era.claim].claim_status = TableStatus(era.claimDetail[1].claim_status_code)

\* the same for the status codes that do not name a property every object has
C10_StatusOfOwnCodes ==
  era.pc \in {"update_claim", "denial"} /\ era.claimDetail[1].claim_status_code \notin ObjectPrototypeKeys =>
    /\ era.pc = "update_claim" =>
         era.claim_status = TableStatus(era.claimDetail[1].claim_status_code)
    /\ era.pc = "denial" =>
         claims[era.claim].claim_status = TableStatus(era.claimDetail[1].claim_status_code)

\* processERAFile has returned
Returned == era.pc \in {"done", "failed"}

\* the stored claims a claim detail's claim_number names
ClaimsNumbered(number) == {c \in DOMAIN claims : claims[c].claim_number = number}

\* the claim has a posting made by hand
HandPosted(c) == \E i \in DOMAIN postings : postings[i].claim_id = c /\ postings[i].posted_by # NULL

DenialsOf(c) == {j \in 1 .. Len(denials) : denials[j].claim_id = c}

C12_DeniedInFull ==
  (era.pc = "done" /\ Len(era.details) = 1) =>
    \A c \in ClaimsNumbered(era.details[1].claim_number) :
      (/\ era.details[1].claim_status_code = "4"
       /\ era.details[1].total_paid_amount = 0
       /\ era.details[1].patient_responsibility = 0
       /\ \A i \in DOMAIN postings : postings[i].claim_id # c)
        => /\ claims[c].total_paid = 0
           /\ claims[c].patient_responsibility = claims[c].total_charges
           /\ claims[c].claim_status = "DENIED"
           /\ Cardinality(DenialsOf(c)) = 1
           /\ \A j \in DenialsOf(c) : denials[j].resolution_status = "OPEN"

\* C12 without the patient responsibility: the rest of the scenario
C12_DeniedStatusAndDenial ==
  (era.pc = "done" /\ Len(era.details) = 1) =>
    \A c \in ClaimsNumbered(era.details[1].claim_number) :
      (/\ era.details[1].claim_status_code = "4"
       /\ era.details[1].total_paid_amount = 0
       /\ \A i \in DOMAIN postings : postings[i].claim_id # c)
        => /\ claims[c].total_paid = 0
           /\ claims[c].patient_responsibility = era.details[1].patient_responsibility
           /\ claims[c].claim_status = "DENIED"
           /\ Cardinality(DenialsOf(c)) = 1
           /\ \A j \in DenialsOf(c) :
                /\ denials[j].resolution_status = "OPEN"
                /\ denials[j].follow_up_date = denials[j].denial_date + 14
                /\ denials[j].appeal_deadline = denials[j].denial_date + 90

\* the auto-posting setting is stored and says "true"
AutoPostingOn == settings = [k \in {"era_auto_posting_enabled"} |-> "true"]

\* the processing of the current claim detail ends in this step
DetailEnds == era.pc \in {"create_detail", "denial"} /\ era'.pc = "loop"

\* C13: while the auto-posting setting is disabled or absent no step of remittance
\* processing creates a payment posting; a matched claim detail with a positive paid
\* amount still leaves its claim with the status the code mapping gives, and a
\* denial of that claim is still created when its code is a denial code.
C13_NoPostingWhenDisabled ==
  [][~AutoPostingOn =>
       /\ postings' = postings
       /\ (DetailEnds /\ era.claim # NULL /\ era.claimDetail[1].total_paid_amount > 0)
            => /\ claims'[era.claim].claim_status = TableStatus(era.claimDetail[1].claim_status_code)
               /\ era.claimDetail[1].claim_status_code \in {"4", "23"}
                    => /\ Len(denials') = Len(denials) + 1
                       /\ denials'[Len(denials')].claim_id = era.claim]_vars

\* C13 witness: with auto-posting off a detail paying 50 under denial code "4" has
\* been processed: the claim is DENIED, a denial exists, no posting was made
C13_Witness ==
  /\ ~AutoPostingOn
  /\ era.pc = "done"
  /\ Len(era.details) = 1
  /\ era.details[1].claim_number = "CLM1"
  /\ era.details[1].claim_status_code = "4"
  /\ era.details[1].total_paid_amount = 50
  /\ claims[1].claim_status = "DENIED"
  /\ Len(denials) = 1
  /\ \A i \in DOMAIN postings : postings[i].payment_method # "ERA"

\* ---------------------------------------- remittance parser: status description
\* the static table of payer status codes and their descriptions, "Unknown Status"
\* where the table has no entry
TableDescription(code) ==
  IF code = "1" THEN "Processed as Primary"
  ELSE IF code = "2" THEN "Processed as Secondary"
  ELSE IF code = "3" THEN "Processed as Tertiary"
  ELSE IF code = "4" THEN "Denied"
  ELSE IF code = "19" THEN "Processed as Primary, Forwarded to Additional Payer(s)"
  ELSE IF code = "20" THEN "Processed as Secondary, Forwarded to Additional Payer(s)"
  ELSE IF code = "21" THEN "Processed as Tertiary, Forwarded to Additional Payer(s)"
  ELSE IF code = "22" THEN "Reversal of Previous Payment"
  ELSE IF code = "23" THEN "Not Our Claim, Forwarded to Additional Payer(s)"
  ELSE IF code = "25" THEN "Predetermination Pricing Only - No Payment"
  ELSE "Unknown Status"

\* C14: the status description of every parsed claim detail is the entry of the
\* static description table for its payer status code, and "Unknown Status" for
\* every code that is not in the table.
C14_DescriptionIsTableOrUnknown ==
  parse.pc = "parsed" =>
    \A k \in 1 .. Len(parse.eraData.claims) :
      parse.eraData.claims[k].claim_status_description =
        TableDescription(parse.eraData.claims[k].claim_status_code)

\* the same for the status codes that do not name a property every object has
C14_DescriptionOfOwnCodes ==
  parse.pc = "parsed" =>
    \A k \in 1 .. Len(parse.eraData.claims) :
      parse.eraData.claims[k].claim_status_code \notin ObjectPrototypeKeys
        => parse.eraData.claims[k].claim_status_description =
             TableDescription(parse.eraData.claims[k].claim_status_code)

\* ------------------------------------------------ claims: update replayed
\* the update by slot r follows a finished update of the same claim by another
\* slot, with the line items the earlier update stored
Replays(r, c) ==
  /\ req[r].op = "update_claim"
  /\ req[r].id = c
  /\ \E o \in ReqIds \ {r} : Finished(o, "update_claim", 200) /\ req[o].id = c
  /\ req[r].body.line_items = line_items[c]

\* C15: when an update of a DRAFT or READY claim is applied a second time in a
\* row with the same line items, the commit of the second call leaves the
\* claim's total_charges and its line-item rows (count and field values) as the
\* first call left them.
C15_UpdateIdempotent ==
  [][\A r \in ReqIds, c \in DOMAIN claims :
       (Commits(r) /\ Replays(r, c))
         => /\ c \in DOMAIN claims'
            /\ claims'[c].total_charges = claims[c].total_charges
            /\ line_items'[c] = line_items[c]
            /\ Len(line_items'[c]) = Len(req[r].body.line_items)]_vars

\* C15 witness: two updates of the same claim have finished one after the other,
\* the claim now holds two line items and their total, which is not the total
\* it was created with
C15_Witness ==
  \E r, o \in ReqIds :
    /\ r # o
    /\ Finished(r, "update_claim", 200) /\ Finished(o, "update_claim", 200)
    /\ req[r].id = 2 /\ req[o].id = 2
    /\ Len(line_items[2]) = 2
    /\ claims[2].total_charges = ChargeSum(line_items[2])
    /\ claims[2].total_charges # 20

\* ------------------------------------- remittance processing: claims, continued
\* the claim has a posting made by remittance auto-posting
EraPosted(c) == \E i \in DOMAIN postings : postings[i].claim_id = c /\ AutoPosted(postings, i)

C16_AggregatesAreDetailFields ==
  (era.pc = "done" /\ Len(era.details) = 1) =>
    \A c \in ClaimsNumbered(era.details[1].claim_number) :
      /\ claims[c].total_paid = era.details[1].total_paid_amount
      /\ claims[c].patient_responsibility = era.details[1].patient_responsibility

\* C17: for a claim detail whose claim_number equals no stored claim's claim_number,
\* the step that handles it stores its detail record with no claim link and ends
\* the detail, or fails; no claim row is changed, no payment posting is created
\* and no denial is created.
C17_UnmatchedDetailOnlyRecorded ==
  [][(era.pc = "create_detail" /\ ClaimsNumbered(era.claimDetail[1].claim_number) = {})
       => /\ claims' = claims
          /\ postings' = postings
          /\ denials' = denials
          /\ \/ era'.pc = "failed" /\ era_claim_details' = era_claim_details
             \/ /\ era'.pc = "loop"
                /\ era'.count = era.count + 1
                /\ Len(era_claim_details') = Len(era_claim_details) + 1
                /\ SubSeq(era_claim_details', 1, Len(era_claim_details)) = era_claim_details
                /\ era_claim_details'[Len(era_claim_details')].claim_id = NULL
                /\ era_claim_details'[Len(era_claim_details')].claim_number =
                     era.claimDetail[1].claim_number]_vars

\* C17 witness: with auto-posting on, a remittance whose detail pays 50 on CLM9,
\* a number no stored claim has, has been processed: the detail is recorded with
\* no claim link, and there is no remittance posting and no denial
C17_Witness ==
  /\ AutoPostingOn
  /\ era.pc = "done"
  /\ Len(era.details) = 1
  /\ era.details[1].claim_number = "CLM9"
  /\ era.details[1].total_paid_amount = 50
  /\ ClaimsNumbered("CLM9") = {}
  /\ Len(era_claim_details) = 1
  /\ era_claim_details[1].claim_id = NULL
  /\ era_claim_details[1].claim_number = "CLM9"
  /\ \A i \in DOMAIN postings : ~AutoPosted(postings, i)
  /\ denials = <<>>

\* a stored detail record is the record of claim detail d
RecordOf(row, d) ==
  /\ row.era_id = era.eraId
  /\ row.claim_number = d.claim_number
  /\ row.claim_status_code = d.claim_status_code
  /\ row.total_paid_amount = d.total_paid_amount

\* the details of the remittance after the one whose processing failed
AfterFailing == IF era.pc = "failed" THEN era.count + 2 .. Len(era.details) ELSE {}

\* C18: when the processing of one claim detail has failed, every claim detail
\* that comes after it in the remittance has been processed by the time
\* processERAFile returns: its detail record is stored, and the claim it matches
\* carries the paid amount of the last detail that names it.
C18_LaterDetailsProcessed ==
  \A k \in AfterFailing :
    /\ \E j \in k - 1 .. Len(era_claim_details) : RecordOf(era_claim_details[j], era.details[k])
    /\ \A c \in ClaimsNumbered(era.details[k].claim_number) :
         (\A m \in k + 1 .. Len(era.details) : era.details[m].claim_number # era.details[k].claim_number)
           => claims[c].total_paid = era.details[k].total_paid_amount

\* what happens instead: after a failure no record is stored beyond the failing
\* detail's own
C18_FailureEndsProcessing ==
  era.pc = "failed" => Len(era_claim_details) <= era.count + 1

\* C19: once processERAFile has returned for a remittance whose record was
\* stored, the record's processing_status is POSTED or ERROR, POSTED exactly when
\* all claim details were processed successfully; it is not left in PROCESSING.
C19_EndsPostedOrError ==
  Returned =>
    /\ eras[era.eraId].processing_status \in {"POSTED", "ERROR"}
    /\ eras[era.eraId].processing_status = "POSTED" <=> era.success
    /\ ~era.success => eras[era.eraId].processing_status = "ERROR"

\* what holds instead: POSTED after a successful return, PROCESSING after a failed one
C19_EndsPostedOrProcessing ==
  Returned =>
    eras[era.eraId].processing_status = IF era.success THEN "POSTED" ELSE "PROCESSING"

\* the step ends the processing of a claim detail that is matched to a stored
\* claim and carries a payer status code of the denial set
DeniedDetailEnds ==
  /\ DetailEnds
  /\ era.claim # NULL
  /\ era.claimDetail[1].claim_status_code \in {"4", "23"}

\* C20: remittance processing creates a denial record exactly in the step that
\* ends a claim detail matched to a stored claim with payer status code "4" or
\* "23": that step appends one denial of the matched claim, and no other step,
\* in particular none for a detail with another code or without a matching
\* claim, changes the denials.
C20_DenialIffDeniedAndMatched ==
  [][/\ DeniedDetailEnds
          => /\ Len(denials') = Len(denials) + 1
             /\ SubSeq(denials', 1, Len(denials)) = denials
             /\ denials'[Len(denials')].claim_id = era.claim
             /\ denials'[Len(denials')].denial_reason_code = era.claimDetail[1].claim_status_code
             /\ denials'[Len(denials')].resolution_status = "OPEN"
     /\ ~DeniedDetailEnds => denials' = denials]_vars

\* C20 witness: a remittance with a detail of code "23" and a detail of code "1",
\* both for stored claim CLM1, has been processed, and exactly one denial exists,
\* the one of code "23"
C20_Witness ==
  /\ era.pc = "done"
  /\ Len(era.details) = 2
  /\ era.details[1].claim_status_code = "23"
  /\ era.details[2].claim_status_code = "1"
  /\ era.details[1].claim_number = "CLM1"
  /\ era.details[2].claim_number = "CLM1"
  /\ Len(denials) = 1
  /\ denials[1].claim_id = 1
  /\ denials[1].denial_reason_code = "23"

\* ----------------------------------------------- claim status lifecycle
Adjudicated == {"ACCEPTED", "REJECTED", "PAID", "DENIED"}

\* C29: a claim's status becomes ACCEPTED, REJECTED, PAID or DENIED only from
\* SUBMITTED or a later status; no step moves a claim that is in DRAFT or READY
\* to an adjudicated status.
C29_AdjudicatedOnlyAfterSubmitted ==
  [][\A c \in DOMAIN claims :
       (c \in DOMAIN claims' /\ claims[c].claim_status \in {"DRAFT", "READY"})
         => claims'[c].claim_status \notin Adjudicated]_vars

\* C30: the processing of one matched claim detail is all or nothing: when
\* processERAFile returns after a failure inside a detail, none of the failing
\* detail's writes is in place: the stored detail records, remittance postings
\* and denials are those of the details completed before it.
C30_DetailAllOrNothing ==
  (era.pc = "failed" /\ era.count < Len(era.details)) =>
    /\ Len(era_claim_details) = era.count
    /\ Len(denials) <= era.count
    /\ Cardinality({i \in DOMAIN postings : AutoPosted(postings, i)}) <= era.count

\* --------------------------------------------------- claims: create guard
\* the claim stored by the create of slot r at its commit
Creates(r) == Commits(r) /\ req[r].op = "create_claim" /\ req[r].id \in DOMAIN claims'

\* C26: every claim a create stores has at least one line item, every line
\* item with a strictly positive charge amount and a service date, and initial
\* status DRAFT; a request without these is rejected and stores nothing.
C26_CreateNeedsPositiveCharges ==
  [][\A r \in ReqIds :
       Creates(r)
         => /\ Len(line_items'[req[r].id]) >= 1
            /\ \A i \in 1 .. Len(line_items'[req[r].id]) :
                 /\ line_items'[req[r].id][i].charge_amount > 0
                 /\ line_items'[req[r].id][i].service_date # NULL
            /\ claims'[req[r].id].claim_status = "DRAFT"]_vars

\* what holds instead: the charge amounts of a stored claim are not negative
C26_CreateNeedsNonNegativeCharges ==
  [][\A r \in ReqIds :
       Creates(r)
         => /\ Len(line_items'[req[r].id]) >= 1
            /\ \A i \in 1 .. Len(line_items'[req[r].id]) :
                 /\ line_items'[req[r].id][i].charge_amount >= 0
                 /\ line_items'[req[r].id][i].service_date # NULL
            /\ claims'[req[r].id].claim_status = "DRAFT"]_vars

\* ------------------------------------------- claims: validation before submit
\* the stored line items of claim c are fit for submission
Submittable(c) ==
  /\ c \in DOMAIN claims
  /\ Len(line_items[c]) >= 1
  /\ \A i \in 1 .. Len(line_items[c]) :
       /\ line_items[c][i].procedure_code # ""
       /\ line_items[c][i].charge_amount > 0
       /\ line_items[c][i].service_date # NULL

Unacceptable(body) ==
  \/ body.claim_id \notin DOMAIN claims
  \/ body.payment_amount < 0
  \/ body.payment_type \notin {"INSURANCE", "PATIENT", "ADJUSTMENT", "REFUND"}
  \/ body.payment_method \notin {"CHECK", "EFT", "CREDIT_CARD", "CASH", "ERA"}

\* C25: a post request for a missing claim, with a negative amount or with an
\* unknown type or method is answered 400 or 404 at once, with nothing stored
\* or begun; an accepted post changes the stored postings and claims in one
\* step only, its commit, which stores the posting together with the claim
\* aggregates computed in its transaction; every other step of it, a failure
\* with rollback included, leaves postings and claims as they were.
C25_PostRejectsOrAtomic ==
  [][\A r \in ReqIds :
       /\ \A body \in PaymentBodies :
            (PostPayment(r, body) /\ Unacceptable(body))
              => /\ req'[r].pc = "done" /\ req'[r].status \in {400, 404}
                 /\ postings' = postings /\ claims' = claims /\ tx' = tx
       /\ (req[r].op = "post_payment" /\ req[r].pc \notin {"idle", "done"} /\ req'[r] # req[r])
            => \/ postings' = postings /\ claims' = claims /\ ~Commits(r)
               \/ /\ Commits(r)
                  /\ req[r].id \notin DOMAIN postings
                  /\ DOMAIN postings' = DOMAIN postings \cup {req[r].id}
                  /\ postings'[req[r].id].claim_id = req[r].claim_id
                  /\ postings'[req[r].id].payment_amount = req[r].body.payment_amount
                  /\ claims'[req[r].claim_id].total_paid = req[r].totalPaid
                  /\ claims'[req[r].claim_id].patient_responsibility =
                       Max(0, req[r].total_charges - req[r].totalPaid - req[r].totalAdjustments)]_vars

\* C25 witness: one post has committed its posting and the claim's total_paid
\* counts it; another post has failed inside its transaction and left no posting
C25_Witness ==
  \E r, o \in ReqIds :
    /\ Finished(r, "post_payment", 201)
    /\ req[r].id \in DOMAIN postings
    /\ postings[req[r].id].payment_type = "PATIENT"
    /\ claims[postings[req[r].id].claim_id].total_paid >= postings[req[r].id].payment_amount
    /\ Finished(o, "post_payment", 500)
    /\ req[o].id \in PostingIds \ DOMAIN postings

\* ================================================== denials and bulk requests
MaxBulk == 2

\* table users: id -> role; no user has id MissingUserId
Users == (1 :> "BILLER" @@ 2 :> "VIEWER")

MissingUserId == 4

\* new Date(): requests started later see a later time
Today == Now + ops

\* a denials row, as createDenialRecord stores it plus the columns the denial
\* routes write
DenialRow(claim_id, status, assigned, resolved) ==
  [claim_id |-> claim_id, denial_date |-> Now, denial_reason_code |-> "4",
   resolution_status |-> status, assigned_to |-> assigned, resolution_date |-> resolved,
   priority |-> "MEDIUM", updated_by |-> NULL]

DenialIds == 1 .. 3

\* PUT /denials/:id request bodies
DenialBodies ==
  {[resolution_status |-> st] : st \in {"OPEN", "RESOLVED", "APPEALED", "REOPENED"}}
    \cup {[priority |-> "HIGH"], [resolution_date |-> 9], [resolution_status |-> "RESOLVED", assigned_to |-> 2]}

\* updateSchema.validate(req.body): the keys the schema names, each optional
updateSchema(body) ==
  /\ DOMAIN body \subseteq {"resolution_status", "assigned_to", "priority", "resolution_notes", "follow_up_date"}
  /\ "resolution_status" \in DOMAIN body
       => body.resolution_status \in {"OPEN", "IN_PROGRESS", "APPEALED", "CORRECTED", "WRITTEN_OFF", "RESOLVED"}
  /\ "priority" \in DOMAIN body => body.priority \in {"LOW", "MEDIUM", "HIGH", "URGENT"}

\* Database.update("denials", id, data): the row with the columns of data set;
\* affectedRows > 0 only when the row exists
UpdateDenialRow(id, data) ==
  IF id \in 1 .. Len(denials) THEN [denials EXCEPT ![id] = Merge(denials[id], data)] ELSE denials

DeskUnchanged ==
  UNCHANGED <<line_items, nextClaimId, tx, gateway, parse, era, eras, era_claim_details, settings, serial, authVars>>

\* PUT /denials/:id: validate the body, findById
UpdateDenial(r, id, body) ==
  /\ Free(r)
  /\ ops' = ops + 1
  /\ req' = [req EXCEPT ![r] =
       IF ~updateSchema(body) THEN Answer("update_denial", id, 400, "validation")
       ELSE IF id \notin 1 .. Len(denials) THEN Answer("update_denial", id, 404, "Denial not found")
       ELSE [Idle EXCEPT !.op = "update_denial", !.pc = "update_denial", !.id = id, !.body = body,
                         !.existing = denials[id].resolution_status]]
  /\ UNCHANGED <<claims, postings, nextPostingId, denials, audit>>
  /\ DeskUnchanged

\* PUT /denials/:id: resolution_date when the status is changed to RESOLVED,
\* Database.update, auditLog, response
UpdateDenialWrite(r) ==
  /\ req[r].pc = "update_denial"
  /\ LET value == req[r].body
         resolving == /\ "resolution_status" \in DOMAIN value
                      /\ value.resolution_status = "RESOLVED"
                      /\ req[r].existing # "RESOLVED"
         updateData == Merge(Merge(value, [updated_by |-> UserId]),
                             IF resolving THEN [resolution_date |-> Today] ELSE EmptyFn)
     IN denials' = UpdateDenialRow(req[r].id, updateData)
  /\ audit' = auditLog(audit)
  /\ req' = [req EXCEPT ![r] = Respond(r, IF auditLogThrows(audit) THEN 500 ELSE 200)]
  /\ UNCHANGED <<claims, postings, nextPostingId, ops>>
  /\ DeskUnchanged

\* a role test that lets every role handle denials
CanHandleDenials_AnyRole(role) == TRUE

\* ["ADMIN", "MANAGER", "BILLER", "COLLECTOR"].includes(user.role)
CanHandleDenials(role) == role \in {"ADMIN", "MANAGER", "BILLER", "COLLECTOR"}

\* the checks on assigned_to of assign and bulk-assign: 0 when they pass
AssigneeError(assigned_to) ==
  IF assigned_to = NULL THEN 400
  ELSE IF assigned_to \notin DOMAIN Users THEN 404
  ELSE IF ~CanHandleDenials(Users[assigned_to]) THEN 400
  ELSE 0

\* the columns assign and bulk-assign write
Assignment(assigned_to) ==
  [assigned_to |-> assigned_to, resolution_status |-> "IN_PROGRESS", updated_by |-> UserId]

\* POST /denials/:id/assign
AssignDenial(r, id, assigned_to) ==
  /\ Free(r)
  /\ ops' = ops + 1
  /\ LET code == AssigneeError(assigned_to)
         success == id \in 1 .. Len(denials)
     IN IF code # 0 \/ ~success
        THEN /\ req' = [req EXCEPT ![r] =
                  Answer("assign_denial", id, IF code # 0 THEN code ELSE 400,
                         IF code # 0 THEN "assignee" ELSE "Failed to assign denial")]
             /\ UNCHANGED <<denials, audit>>
        ELSE /\ denials' = UpdateDenialRow(id, Assignment(assigned_to))
             /\ audit' = auditLog(audit)
             /\ req' = [req EXCEPT ![r] =
                  Answer("assign_denial", id, IF auditLogThrows(audit) THEN 500 ELSE 200, "")]
  /\ UNCHANGED <<claims, postings, nextPostingId>>
  /\ DeskUnchanged

\* a loop that stops at the first item that fails
AfterItem_StopOnError(k, n, status) == IF status = "ERROR" THEN n + 1 ELSE k + 1

\* for (const item of items) { try { ... } catch { results.push(ERROR) } }: the
\* next turn of the loop, whatever the outcome of this one
AfterItem(k, n, status) == k + 1

BulkAssignBodies ==
  {[denial_ids |-> ids, assigned_to |-> u] :
     ids \in UNION {[1 .. n -> DenialIds] : n \in 1 .. MaxBulk}, u \in {1}}
    \cup {[denial_ids |-> <<1>>, assigned_to |-> u] : u \in {NULL, 2, MissingUserId}}
    \cup {[denial_ids |-> <<>>, assigned_to |-> 1]}

\* POST /denials/bulk-assign up to the loop
BulkAssign(r, body) ==
  /\ Free(r)
  /\ ops' = ops + 1
  /\ req' = [req EXCEPT ![r] =
       IF Len(body.denial_ids) = 0 THEN Answer("bulk_assign", 0, 400, "Denial IDs array is required")
       ELSE IF AssigneeError(body.assigned_to) # 0
            THEN Answer("bulk_assign", 0, AssigneeError(body.assigned_to), "assignee")
       ELSE [Idle EXCEPT !.op = "bulk_assign", !.pc = "bulk", !.body = body, !.k = 1]]
  /\ UNCHANGED <<claims, postings, nextPostingId, denials, audit>>
  /\ DeskUnchanged

\* the result entries of one loop turn: the entry pushed in the try block, and
\* the entry the catch block adds when the audit call after it throws
Pushed(entry, thrown) ==
  IF entry.status = "SUCCESS" /\ thrown THEN <<entry, [entry EXCEPT !.status = "ERROR"]>> ELSE <<entry>>

\* POST /denials/bulk-assign: one turn of the loop; Database.update may throw
BulkAssignItem(r) ==
  /\ req[r].op = "bulk_assign" /\ req[r].pc = "bulk"
  /\ req[r].k <= Len(req[r].body.denial_ids)
  /\ \E thrown \in BOOLEAN :
       LET denialId == req[r].body.denial_ids[req[r].k]
           success == ~thrown /\ denialId \in 1 .. Len(denials)
           entry == [id |-> denialId, status |-> IF success THEN "SUCCESS" ELSE "ERROR"]
       IN /\ denials' = IF success
                        THEN UpdateDenialRow(denialId, Assignment(req[r].body.assigned_to))
                        ELSE denials
          /\ audit' = IF success THEN auditLog(audit) ELSE audit
          /\ req' = [req EXCEPT
               ![r].results = req[r].results \o Pushed(entry, auditLogThrows(audit)),
               ![r].k = AfterItem(req[r].k, Len(req[r].body.denial_ids), entry.status)]
  /\ UNCHANGED <<claims, postings, nextPostingId, ops>>
  /\ DeskUnchanged

\* a bulk payment item that is null
NullItem == [null |-> TRUE]

BulkPaymentItems ==
  {[claim_id |-> 1, payment_type |-> "PATIENT", payment_method |-> "CASH", payment_amount |-> 10],
   [claim_id |-> 2, payment_type |-> "ADJUSTMENT", payment_method |-> "CHECK", payment_amount |-> 20],
   [claim_id |-> 1, payment_type |-> "PATIENT", payment_method |-> "CASH", payment_amount |-> -10],
   [claim_id |-> MissingClaimId, payment_type |-> "PATIENT", payment_method |-> "CASH", payment_amount |-> 10],
   NullItem}

BulkPaymentBodies == UNION {[1 .. n -> BulkPaymentItems] : n \in 0 .. MaxBulk}

\* POST /payments/bulk up to the loop
BulkPayments(r, payments) ==
  /\ Free(r)
  /\ ops' = ops + 1
  /\ req' = [req EXCEPT ![r] =
       IF Len(payments) = 0 THEN Answer("bulk_payments", 0, 400, "Payments array is required")
       ELSE [Idle EXCEPT !.op = "bulk_payments", !.pc = "bulk", !.body = payments, !.k = 1]]
  /\ UNCHANGED <<claims, postings, nextPostingId, denials, audit>>
  /\ DeskUnchanged

\* POST /payments/bulk: one turn of the loop: validate, findById, then the
\* transaction (INSERT, updateClaimTotals) committed or rolled back. Reading
\* claim_id of a null item throws in the try block and again in its catch
\* block, which ends the request in the handler's outer catch.
BulkPaymentItem(r) ==
  /\ req[r].op = "bulk_payments" /\ req[r].pc = "bulk"
  /\ req[r].k <= Len(req[r].body)
  /\ nextPostingId <= MaxPostingId
  /\ \A o \in ReqIds : ~tx[o].active
  /\ LET paymentData == req[r].body[req[r].k]
     IN IF paymentData = NullItem
        THEN /\ req' = [req EXCEPT ![r] = Respond(r, 500)]
             /\ UNCHANGED <<claims, postings, nextPostingId, audit>>
        ELSE \E committed \in BOOLEAN :
               LET c == paymentData.claim_id
                   accepted == paymentSchema(paymentData) /\ c \in DOMAIN claims
                   success == accepted /\ committed
                   entry == [id |-> c, status |-> IF success THEN "SUCCESS" ELSE "ERROR"]
                   row == [claim_id |-> c, payment_type |-> paymentData.payment_type,
                           payment_method |-> paymentData.payment_method,
                           payment_amount |-> paymentData.payment_amount, posted_by |-> UserId]
                   stored == Merge(postings, nextPostingId :> row)
               IN /\ postings' = IF success THEN stored ELSE postings
                  /\ claims' = IF success
                               THEN [claims EXCEPT
                                       ![c].total_paid = TotalPaidOf(stored, c),
                                       ![c].patient_responsibility =
                                          PatientResponsibility(claims[c].total_charges,
                                                                TotalPaidOf(stored, c),
                                                                TotalAdjustmentsOf(stored, c))]
                               ELSE claims
                  /\ nextPostingId' = IF accepted THEN nextPostingId + 1 ELSE nextPostingId
                  /\ audit' = IF success THEN auditLog(audit) ELSE audit
                  /\ req' = [req EXCEPT
                       ![r].results = req[r].results \o Pushed(entry, auditLogThrows(audit)),
                       ![r].k = AfterItem(req[r].k, Len(req[r].body), entry.status)]
  /\ UNCHANGED <<denials, ops>>
  /\ DeskUnchanged

\* the loop of a bulk request is over: res.json({ success: true, ..., results })
BulkRespond(r) ==
  /\ req[r].pc = "bulk"
  /\ req[r].k > Len(IF req[r].op = "bulk_assign" THEN req[r].body.denial_ids ELSE req[r].body)
  /\ req' = [req EXCEPT ![r] =
       [Respond(r, 200) EXCEPT !.results = req[r].results, !.body = req[r].body]]
  /\ UNCHANGED <<claims, postings, nextPostingId, denials, audit, ops>>
  /\ DeskUnchanged

\* two denials of claim 1, one open and one resolved earlier; the audit store
\* works or fails
InitDesk ==
  /\ claims = (1 :> ClaimRow("CLM1", "DENIED", 50, 0, 50, Now, 1)
               @@ 2 :> ClaimRow("CLM2", "SUBMITTED", 30, 0, 30, Now, 2))
  /\ line_items = (1 :> <<LineItem(1, 50)>> @@ 2 :> <<LineItem(1, 30)>>)
  /\ postings = EmptyFn
  /\ nextPostingId = 1
  /\ nextClaimId = 3
  /\ req = [r \in ReqIds |-> Idle]
  /\ tx = [r \in ReqIds |-> NoTx]
  /\ ops = 0
  /\ gateway = [calls |-> 1, accepted |-> 1]
  /\ serial = FALSE
  /\ parse = NoParse
  /\ era = NoEra
  /\ eras = EmptyFn
  /\ era_claim_details = <<>>
  /\ denials = <<DenialRow(1, "OPEN", NULL, NULL), DenialRow(1, "RESOLVED", 1, Now)>>
  /\ settings = EmptyFn
  /\ audit \in {[failing |-> f, logs |-> 0] : f \in BOOLEAN}
  /\ AuthIdle

NextDesk ==
  \/ \E r \in ReqIds, id \in DenialIds, body \in DenialBodies : UpdateDenial(r, id, body)
  \/ \E r \in ReqIds : UpdateDenialWrite(r)
  \/ \E r \in ReqIds, id \in DenialIds, u \in {NULL, 1, 2, MissingUserId} : AssignDenial(r, id, u)
  \/ \E r \in ReqIds, body \in BulkAssignBodies : BulkAssign(r, body)
  \/ \E r \in ReqIds : BulkAssignItem(r)
  \/ \E r \in ReqIds, payments \in BulkPaymentBodies : BulkPayments(r, payments)
  \/ \E r \in ReqIds : BulkPaymentItem(r)
  \/ \E r \in ReqIds : BulkRespond(r)

\* denial requests and bulk requests handled concurrently
SpecDesk == InitDesk /\ [][NextDesk]_vars

\* ------------------------------------------------------- denials: claims
\* the step moves denial d into RESOLVED
Resolves(d) == denials[d].resolution_status # "RESOLVED" /\ denials'[d].resolution_status = "RESOLVED"

\* C21: the resolution_date of a denial is written once: the step that first
\* moves the denial into RESOLVED sets it, and once it is set no update, assign
\* or bulk-assign step changes it again, also not when the denial has left
\* RESOLVED and enters it again.
C21_ResolutionDateSetOnce ==
  [][\A d \in 1 .. Len(denials) :
       /\ (Resolves(d) /\ denials[d].resolution_date = NULL) => denials'[d].resolution_date # NULL
       /\ denials[d].resolution_date # NULL
            => denials'[d].resolution_date = denials[d].resolution_date]_vars

\* what holds instead: the resolution_date is written by every update to
\* RESOLVED that found the denial in another status, and by no other step
C21_ResolutionDateSetOnEveryEntry ==
  [][\A d \in 1 .. Len(denials) :
       denials'[d].resolution_date # denials[d].resolution_date
         <=> \E r \in ReqIds :
               /\ req[r].pc = "update_denial" /\ req'[r].pc = "done" /\ req[r].id = d
               /\ "resolution_status" \in DOMAIN req[r].body
               /\ req[r].body.resolution_status = "RESOLVED"
               /\ req[r].existing # "RESOLVED"
               /\ denials'[d].resolution_date = Today
               /\ Today # denials[d].resolution_date]_vars

\* the user exists and has a role that may handle denials
Permitted(u) == u \in DOMAIN Users /\ Users[u] \in {"ADMIN", "MANAGER", "BILLER", "COLLECTOR"}

\* C22: an assign request succeeds only for an assignee that exists and has one
\* of the roles ADMIN, MANAGER, BILLER, COLLECTOR, and then leaves the denial
\* assigned to the assignee and IN_PROGRESS; for a missing assignee or one with
\* another role the request is rejected and the denials are unchanged.
C22_AssignChecksAssignee ==
  [][\A r \in ReqIds, id \in DenialIds, u \in {NULL, 1, 2, MissingUserId} :
       AssignDenial(r, id, u)
         => /\ req'[r].status = 200
                 => /\ Permitted(u)
                    /\ denials'[id].assigned_to = u
                    /\ denials'[id].resolution_status = "IN_PROGRESS"
                    /\ \A d \in 1 .. Len(denials) : d # id => denials'[d] = denials[d]
            /\ ~Permitted(u)
                 => /\ req'[r].status \in {400, 404}
                    /\ denials' = denials]_vars

\* C22 witness: an assign to the biller has succeeded and the denial is the
\* biller's and IN_PROGRESS; an assign to the viewer was rejected
C22_Witness ==
  \E r, o \in ReqIds :
    /\ Finished(r, "assign_denial", 200) /\ req[r].id = 1
    /\ denials[1].assigned_to = 1 /\ Users[1] = "BILLER"
    /\ denials[1].resolution_status = "IN_PROGRESS"
    /\ Finished(o, "assign_denial", 400) /\ req[o].error = "assignee"
    /\ \A d \in 1 .. Len(denials) : denials[d].assigned_to # 2

\* the step is a turn of the bulk-assign loop of slot r
BulkAssignTurn(r) ==
  req[r].op = "bulk_assign" /\ req[r].pc = "bulk" /\ req'[r] # req[r] /\ req'[r].pc = "bulk"

\* C23: bulk assignment handles each denial id on its own: every turn of the
\* loop adds exactly one result entry for its id, SUCCESS or ERROR, and goes on
\* to the next id whatever the outcome; a SUCCESS turn leaves its denial
\* assigned and IN_PROGRESS and an ERROR turn changes no denial, so nothing done
\* for earlier ids is undone; the response lists one entry per input id in
\* input order.
C23_BulkAssignIndependent ==
  [][\A r \in ReqIds :
       /\ BulkAssignTurn(r)
            => LET ids == req[r].body.denial_ids
                   id == ids[req[r].k]
                   entry == req'[r].results[Len(req'[r].results)]
               IN /\ Len(req'[r].results) = Len(req[r].results) + 1
                  /\ SubSeq(req'[r].results, 1, Len(req[r].results)) = req[r].results
                  /\ entry.id = id
                  /\ entry.status \in {"SUCCESS", "ERROR"}
                  /\ req'[r].k = req[r].k + 1
                  /\ entry.status = "SUCCESS"
                       => /\ denials'[id].assigned_to = req[r].body.assigned_to
                          /\ denials'[id].resolution_status = "IN_PROGRESS"
                          /\ \A d \in 1 .. Len(denials) : d # id => denials'[d] = denials[d]
                  /\ entry.status = "ERROR" => denials' = denials
       /\ (req[r].op = "bulk_assign" /\ req[r].pc = "bulk" /\ req'[r].pc = "done")
            => /\ req'[r].status = 200
               /\ Len(req'[r].results) = Len(req[r].body.denial_ids)
               /\ \A k \in 1 .. Len(req'[r].results) :
                    req'[r].results[k].id = req[r].body.denial_ids[k]]_vars

\* C23 witness: a bulk assignment of a missing denial id followed by denial 1
\* has answered with ERROR for the first and SUCCESS for the second, and
\* denial 1 is assigned and IN_PROGRESS
C23_Witness ==
  \E r \in ReqIds :
    /\ Finished(r, "bulk_assign", 200)
    /\ req[r].body.denial_ids = <<3, 1>>
    /\ Len(req[r].results) = 2
    /\ req[r].results[1] = [id |-> 3, status |-> "ERROR"]
    /\ req[r].results[2] = [id |-> 1, status |-> "SUCCESS"]
    /\ denials[1].assigned_to = 1
    /\ denials[1].resolution_status = "IN_PROGRESS"

\* what a turn of the bulk-payments loop of slot r owes its item: one more
\* result entry, SUCCESS or ERROR, the loop going on to the next item, no
\* stored posting lost, and nothing written for an item that failed
ItemIsolated(r) ==
  /\ req'[r].pc = "bulk"
  /\ Len(req'[r].results) = Len(req[r].results) + 1
  /\ SubSeq(req'[r].results, 1, Len(req[r].results)) = req[r].results
  /\ req'[r].results[Len(req'[r].results)].status \in {"SUCCESS", "ERROR"}
  /\ req'[r].k = req[r].k + 1
  /\ \A p \in DOMAIN postings : p \in DOMAIN postings' /\ postings'[p] = postings[p]
  /\ req'[r].results[Len(req'[r].results)].status = "ERROR"
       => postings' = postings /\ claims' = claims
  /\ req'[r].results[Len(req'[r].results)].status = "SUCCESS"
       => \E p \in DOMAIN postings' \ DOMAIN postings :
            /\ postings'[p].claim_id = req[r].body[req[r].k].claim_id
            /\ postings'[p].payment_amount = req[r].body[req[r].k].payment_amount

\* the bulk-payments request of slot r answers: 200 with one result per payment
AllItemsAnswered(r) ==
  /\ req'[r].status = 200
  /\ Len(req'[r].results) = Len(req[r].body)

\* C24: bulk payment posting isolates items: every item yields exactly one
\* result, SUCCESS or ERROR, a failing item writes no posting and no aggregate
\* and neither blocks later items nor undoes earlier ones, and the response
\* carries one result per input payment.
C24_BulkPaymentsIsolated ==
  [][\A r \in ReqIds :
       (req[r].op = "bulk_payments" /\ req[r].pc = "bulk" /\ req'[r] # req[r])
         => IF req[r].k <= Len(req[r].body) THEN ItemIsolated(r) ELSE AllItemsAnswered(r)]_vars

\* C24, for payments that are objects: the same, when the item of the turn is
\* not null
C24_ObjectItemsIsolated ==
  [][\A r \in ReqIds :
       (req[r].op = "bulk_payments" /\ req[r].pc = "bulk" /\ req'[r] # req[r])
         => IF req[r].k <= Len(req[r].body)
            THEN req[r].body[req[r].k] # NullItem => ItemIsolated(r)
            ELSE AllItemsAnswered(r)]_vars

\* C24, the case that holds: a bulk posting of a payment for a missing claim
\* followed by a valid payment answered ERROR then SUCCESS and stored the
\* second payment
C24_ErrorThenSuccess ==
  \E r \in ReqIds :
    /\ Finished(r, "bulk_payments", 200)
    /\ Len(req[r].results) = 2
    /\ req[r].results[1] = [id |-> MissingClaimId, status |-> "ERROR"]
    /\ req[r].results[2] = [id |-> 1, status |-> "SUCCESS"]
    /\ \E p \in DOMAIN postings : postings[p].claim_id = 1 /\ postings[p].payment_amount = 10

\* ---------------------------------------------------------------------------
\* claim, payment and denial requests with an audit store that works or fails

\* a draft, a ready and a submitted claim, one payment on the submitted claim,
\* an open and a resolved denial; requests arrive one at a time
InitAudit ==
  /\ claims = (1 :> ClaimRow("CLM1", "DRAFT", 30, 0, 0, NULL, NULL)
               @@ 2 :> ClaimRow("CLM2", "READY", 20, 0, 0, NULL, NULL)
               @@ 3 :> ClaimRow("CLM3", "SUBMITTED", 10, 10, 0, Now, 1))
  /\ line_items = [c \in AllClaimIds |->
                     CASE c = 1 -> <<LineItem(1, 10), LineItem(2, 20)>>
                       [] c = 2 -> <<LineItem(1, 20)>>
                       [] c = 3 -> <<LineItem(1, 10)>>
                       [] OTHER -> <<>>]
  /\ postings = (1 :> [claim_id |-> 3, payment_type |-> "INSURANCE", payment_method |-> "CHECK",
                       payment_amount |-> 10, posted_by |-> UserId])
  /\ nextPostingId = 2
  /\ nextClaimId = 4
  /\ req = [r \in ReqIds |-> Idle]
  /\ tx = [r \in ReqIds |-> NoTx]
  /\ ops = 0
  /\ gateway = [calls |-> 1, accepted |-> 1]
  /\ serial = TRUE
  /\ parse = NoParse
  /\ era = NoEra
  /\ eras = EmptyFn
  /\ era_claim_details = <<>>
  /\ denials = <<DenialRow(3, "OPEN", NULL, NULL), DenialRow(3, "RESOLVED", 1, Now)>>
  /\ settings = EmptyFn
  /\ audit \in {[failing |-> f, logs |-> 0] : f \in BOOLEAN}
  /\ AuthIdle

\* every claim, payment and denial request, each on a few of its inputs
NextAudit ==
  \/ \E r \in ReqIds, body \in {b \in PaymentBodies : b.payment_amount # 20 /\ b.claim_id # 2} :
       PostPayment(r, body)
  \/ \E r \in ReqIds : PostPaymentInsert(r)
  \/ \E r \in ReqIds, id \in {1, 2},
        body \in {b \in PaymentBodies : b.payment_type = "PATIENT" /\ b.payment_amount = 20} :
       PutPayment(r, id, body)
  \/ \E r \in ReqIds : PutPaymentUpdate(r)
  \/ \E r \in ReqIds, id \in {1, 2} : DeletePayment(r, id)
  \/ \E r \in ReqIds : DeletePaymentDelete(r)
  \/ \E r \in ReqIds : UpdateClaimTotalsSum(r)
  \/ \E r \in ReqIds : UpdateClaimTotalsClaim(r)
  \/ \E r \in ReqIds : UpdateClaimTotalsWrite(r)
  \/ \E r \in ReqIds, body \in {b \in ClaimBodies : Len(b.line_items) = 1} : CreateClaim(r, body)
  \/ \E r \in ReqIds : CreateClaimInsert(r)
  \/ \E r \in ReqIds : InsertLineItem(r)
  \/ \E r \in ReqIds, id \in {1, 3}, body \in {b \in ClaimBodies : Len(b.line_items) = 1} :
       UpdateClaim(r, id, body)
  \/ \E r \in ReqIds : UpdateClaimRow(r)
  \/ \E r \in ReqIds : UpdateClaimDeleteItems(r)
  \/ \E r \in ReqIds, id \in AllClaimIds : SubmitClaim(r, id)
  \/ \E r \in ReqIds : SubmitValidate(r)
  \/ \E r \in ReqIds : SubmitGateway(r)
  \/ \E r \in ReqIds : SubmitUpdate(r)
  \/ \E r \in ReqIds, id \in AllClaimIds : DeleteClaim(r, id)
  \/ \E r \in ReqIds : DeleteClaimItems(r)
  \/ \E r \in ReqIds : DeleteClaimRow(r)
  \/ \E r \in ReqIds : Commit(r)
  \/ \E r \in ReqIds : Rollback(r)
  \/ \E r \in ReqIds, id \in DenialIds,
        body \in {b \in DenialBodies : "resolution_status" \in DOMAIN b} :
       UpdateDenial(r, id, body)
  \/ \E r \in ReqIds : UpdateDenialWrite(r)
  \/ \E r \in ReqIds, id \in DenialIds, u \in {NULL, 1, 2, MissingUserId} : AssignDenial(r, id, u)
  \/ \E r \in ReqIds, body \in {b \in BulkAssignBodies : Len(b.denial_ids) = 1} : BulkAssign(r, body)
  \/ \E r \in ReqIds : BulkAssignItem(r)
  \/ \E r \in ReqIds, payments \in {p \in BulkPaymentBodies : Len(p) = 1} : BulkPayments(r, payments)
  \/ \E r \in ReqIds : BulkPaymentItem(r)
  \/ \E r \in ReqIds : BulkRespond(r)

SpecAudit == InitAudit /\ [][NextAudit]_vars

\* the answer of an operation that went through, by the handlers' res.status
SuccessStatus(op) == IF op \in {"post_payment", "create_claim"} THEN 201 ELSE 200

\* C28: a failing audit store never changes the outcome of the operation that
\* wrote to it: with the store working or failing, every step that ends a
\* claim, payment or denial operation with an audit call answers with the
\* operation's success status and has made the operation's writes, every turn
\* of a bulk loop records exactly one result for its item, and a failing store
\* keeps nothing.
C28_AuditFailureKeepsOutcome ==
  [][\A r \in ReqIds :
       /\ Commit(r)
            => /\ req'[r].status = SuccessStatus(req[r].op)
               /\ claims' = CommittedClaims(r)
               /\ postings' = CommittedPostings(r)
               /\ line_items' = CommittedLineItems(r)
       /\ SubmitUpdate(r)
            => /\ req'[r].status = 200
               /\ req[r].id \in DOMAIN claims => claims'[req[r].id].claim_status = "SUBMITTED"
       /\ UpdateDenialWrite(r)
            => /\ req'[r].status = 200
               /\ "resolution_status" \in DOMAIN req[r].body
                    => denials'[req[r].id].resolution_status = req[r].body.resolution_status
       /\ \A id \in DenialIds, u \in DOMAIN Users :
            (AssignDenial(r, id, u) /\ Permitted(u) /\ id \in 1 .. Len(denials))
              => /\ req'[r].status = 200
                 /\ denials'[id].assigned_to = u
       /\ ((BulkAssignItem(r) \/ BulkPaymentItem(r)) /\ req'[r].pc = "bulk")
            => Len(req'[r].results) = Len(req[r].results) + 1
       /\ audit.failing => audit' = audit]_vars

\* C28 witness: with the audit store failing and empty, a created claim was
\* answered 201 and is stored, and a posted payment was answered 201 and is
\* stored
C28_Witness ==
  /\ audit = [failing |-> TRUE, logs |-> 0]
  /\ \E r \in ReqIds : Finished(r, "create_claim", 201)
  /\ \E r \in ReqIds : Finished(r, "post_payment", 201)
  /\ 4 \in DOMAIN claims
  /\ 2 \in DOMAIN postings

\* --------------------------------------------------- denials of a remittance
\* the denials remittance processing has created: the rows that carry a reason code
EraDenials == {j \in 1 .. Len(denials) : "denial_reason_code" \in DOMAIN denials[j]}

C39_EraDenialsOtherMedium ==
  \A j \in EraDenials :
    /\ denials[j].denial_reason_code \in {"4", "23"}
    /\ denials[j].denial_category = "OTHER"
    /\ denials[j].priority = "MEDIUM"

\* C39 witness: one remittance has left a denial with reason code "4" and one
\* with reason code "23"
C39_Witness ==
  /\ \E j \in EraDenials : denials[j].denial_reason_code = "4"
  /\ \E j \in EraDenials : denials[j].denial_reason_code = "23"

\* ----------------------------------------------------- a second remittance
\* remittance ERA1, one detail paying claim 1 in full, has been processed with
\* auto-posting on; the next file arrives
InitReplay ==
  /\ claims = (1 :> ClaimRow("CLM1", "PAID", 50, 50, 0, Now, 1)
               @@ 2 :> ClaimRow("CLM2", "SUBMITTED", 30, 0, 30, Now, 2))
  /\ line_items = (1 :> <<LineItem(1, 50)>> @@ 2 :> <<LineItem(1, 30)>>)
  /\ postings = (1 :> [claim_id |-> 1, payment_type |-> "INSURANCE", payment_method |-> "ERA",
                       payment_amount |-> 50, posted_by |-> NULL])
  /\ nextPostingId = 2
  /\ nextClaimId = 3
  /\ req = [r \in ReqIds |-> Idle]
  /\ tx = [r \in ReqIds |-> NoTx]
  /\ ops = 0
  /\ gateway = [calls |-> 2, accepted |-> 2]
  /\ serial = TRUE
  /\ parse = NoParse
  /\ era = NoEra
  /\ eras = (1 :> [era_number |-> "ERA1", processing_status |-> "POSTED"])
  /\ era_claim_details =
       <<[era_id |-> 1, claim_id |-> 1, claim_number |-> "CLM1",
          patient_name |-> PatientName(<<"NM1", "QC", "1", "DOE", "JANE">>),
          service_date_from |-> parseX12Date("20240115"),
          service_date_to |-> parseX12Date("20240120"),
          total_charge_amount |-> 50, total_paid_amount |-> 50, patient_responsibility |-> 0,
          claim_status_code |-> "1",
          claim_status_description |-> getClaimStatusDescription("1")]>>
  /\ denials = <<>>
  /\ settings = [k \in {"era_auto_posting_enabled"} |-> "true"]
  /\ AuditWorks /\ AuthIdle

\* the file that arrives is ERA1 again or a new remittance ERA2
NextReplay ==
  \/ NextEra
  \/ era.pc = "none" /\ \E details \in EraFiles : ProcessERAFile("ERA2", details)

SpecReplay == InitReplay /\ [][NextReplay]_vars

\* C38: remittance numbers are unique among the stored remittances, and
\* ingesting a file whose remittance number is already stored fails at once:
\* it creates no remittance, claim-detail record, payment posting or denial,
\* changes no claim, and does nothing more afterwards.
C38_ReplayRejected ==
  [][/\ \A e1, e2 \in DOMAIN eras' : eras'[e1].era_number = eras'[e2].era_number => e1 = e2
     /\ (era.pc = "none" /\ era'.pc # "none"
         /\ \E e \in DOMAIN eras : eras[e].era_number = era'.era_number)
          => /\ era'.pc = "failed"
             /\ ~era'.success
             /\ UNCHANGED <<eras, era_claim_details, postings, denials, claims>>
     /\ era.pc # "failed"]_vars

\* C38 witness: the file ERA1, with the detail that pays claim 1 in full, was
\* ingested again and failed; the one auto-posted payment of 50 is still the
\* only posting
C38_Witness ==
  /\ era.pc = "failed"
  /\ era.era_number = "ERA1"
  /\ Len(era.details) = 1
  /\ era.details[1].claim_number = "CLM1" /\ era.details[1].total_paid_amount = 50
  /\ DOMAIN postings = {1}
  /\ Len(era_claim_details) = 1
  /\ DOMAIN eras = {1}

\* C37: in every reachable state a claim whose status is SUBMITTED has a
\* submission_date and a clearinghouse tracking id; nothing, remittance
\* processing with an unmapped payer status code included, makes a claim
\* SUBMITTED without a successful gateway submission.
C37_SubmittedHasDateAndTrackingId ==
  \A c \in DOMAIN claims :
    claims[c].claim_status = "SUBMITTED"
      => claims[c].submission_date # NULL /\ claims[c].clearinghouse_id # NULL

\* C37, for the claim routes alone: a step that makes a claim SUBMITTED is the
\* last step of a submit request whose gateway call succeeded, and it writes
\* the date and the tracking id
C37_SubmitRouteSetsDateAndTrackingId ==
  [][\A c \in DOMAIN claims :
       (c \in DOMAIN claims' /\ claims[c].claim_status # "SUBMITTED"
        /\ claims'[c].claim_status = "SUBMITTED")
         => /\ claims'[c].submission_date # NULL
            /\ claims'[c].clearinghouse_id # NULL
            /\ \E r \in ReqIds : req[r].pc = "mark_submitted" /\ req[r].id = c
                                 /\ req[r].submissionResult.success]_vars

\* C35: the money invariant survives claim edits: when an update changes
\* total_charges of a DRAFT or READY claim that already has payment postings,
\* the claim afterwards has patient_responsibility =
\* max(0, total_charges - total_paid - total_adjustments) with the new
\* total_charges.
C35_UpdateKeepsMoneyInvariant ==
  [][\A r \in ReqIds :
       (Commits(r) /\ req[r].op = "update_claim" /\ req[r].id \in DOMAIN claims'
        /\ req[r].id \in DOMAIN claims
        /\ claims'[req[r].id].total_charges # claims[req[r].id].total_charges
        /\ \E i \in DOMAIN postings : postings[i].claim_id = req[r].id)
         => MoneyInvariant(claims', postings', req[r].id)]_vars

\* C35, what the update does write: the committed update leaves total_paid and
\* patient_responsibility as they were
C35_UpdateLeavesAggregates ==
  [][\A r \in ReqIds :
       (Commits(r) /\ req[r].op = "update_claim" /\ req[r].id \in DOMAIN claims'
        /\ req[r].id \in DOMAIN claims)
         => /\ claims'[req[r].id].patient_responsibility = claims[req[r].id].patient_responsibility
            /\ claims'[req[r].id].total_paid = claims[req[r].id].total_paid]_vars

\* the submit request of slot r got the gateway's acceptance: it is about to
\* write SUBMITTED or has answered 200
GatewayAccepted(r) ==
  /\ req[r].op = "submit_claim"
  /\ req[r].pc = "mark_submitted" \/ (req[r].pc = "done" /\ req[r].status = 200)

\* C36: a claim is sent to the gateway at most once per successful submission:
\* of the submit requests on one claim at most one calls the gateway
\* successfully, and no gateway call is made for a claim that is SUBMITTED.
C36_OneGatewaySubmission ==
  [][/\ \A r1, r2 \in ReqIds :
          (GatewayAccepted(r1)' /\ GatewayAccepted(r2)' /\ req'[r1].id = req'[r2].id) => r1 = r2
     /\ \A r \in ReqIds :
          (req[r].pc = "gateway" /\ gateway'.calls # gateway.calls /\ req'[r] # req[r]
           /\ req[r].id \in DOMAIN claims)
            => claims[req[r].id].claim_status # "SUBMITTED"]_vars

\* ------------------------------------------------- remittance parser: dates
\* a well-formed YYYYMMDD token: eight digits, month 01-12, day 01-31
WellFormedDate(tok) ==
  /\ tok # Undefined
  /\ Len(Spelling(tok)) = 8
  /\ AllDigits(Spelling(tok))
  /\ DecimalValue(SubSeq(Spelling(tok), 5, 6)) \in 1 .. 12
  /\ DecimalValue(SubSeq(Spelling(tok), 7, 8)) \in 1 .. 31

\* the calendar date a well-formed token names
DateNamed(tok) ==
  [kind |-> "date", year |-> DecimalValue(SubSeq(Spelling(tok), 1, 4)),
   month |-> DecimalValue(SubSeq(Spelling(tok), 5, 6)),
   day |-> DecimalValue(SubSeq(Spelling(tok), 7, 8))]

\* the step reads a BPR record
ReadsBpr ==
  /\ parse.pc = "lines" /\ Len(parse'.lines) = Len(parse.lines) + 1
  /\ Seg(parse'.lines[Len(parse'.lines)], 0) = "BPR"

\* C33: parseX12Date returns the calendar date of a well-formed 8-digit
\* YYYYMMDD token and null for every other token: missing, of another length,
\* or 8 characters that are no valid date. Stated on the check date of the BPR
\* record.
C33_DateOrNull ==
  [][ReadsBpr
       => LET tok == Seg(parse'.lines[Len(parse'.lines)], 16)
          IN parse'.eraData.check_date = IF WellFormedDate(tok) THEN DateNamed(tok) ELSE NullDate]_vars

\* C33, as the code has it: the date for a well-formed token, null for a
\* missing token or one of another length, and an invalid Date object for 8
\* characters that are no valid date
C33_DateNullOrInvalidDate ==
  [][ReadsBpr
       => LET tok == Seg(parse'.lines[Len(parse'.lines)], 16)
          IN IF WellFormedDate(tok) THEN parse'.eraData.check_date = DateNamed(tok)
             ELSE IF tok = Undefined \/ Len(Spelling(tok)) # 8
                  THEN parse'.eraData.check_date = NullDate
             ELSE parse'.eraData.check_date.kind = "invalid"]_vars

\* C33, a case that holds: the BPR record read last has a four-character or a
\* missing check date and left the check date null
C33_DateAndNullReached ==
  \E i \in 1 .. Len(parse.lines) :
    /\ i = Len(parse.lines)
    /\ Seg(parse.lines[i], 0) = "BPR"
    /\ Seg(parse.lines[i], 16) \in {"2024", Undefined}
    /\ parse.eraData.check_date = NullDate

\* ----------------------------------------- remittance parser: patient name
\* the step reads an NM1 record while a claim detail is open
ReadsNm1 ==
  /\ parse.pc = "lines" /\ Len(parse'.lines) = Len(parse.lines) + 1
  /\ Seg(parse'.lines[Len(parse'.lines)], 0) = "NM1"
  /\ parse.currentClaim # <<>>

\* C34: for an NM1 record with qualifier QC that follows a CLP record, the
\* detail's patient_name is the last-name field (field 3) followed by the
\* first-name field (field 4); an NM1 record with another qualifier leaves
\* patient_name unchanged.
C34_PatientNameLastFirst ==
  [][ReadsNm1
       => LET nm1 == parse'.lines[Len(parse'.lines)]
          IN parse'.currentClaim[1].patient_name =
               IF Seg(nm1, 1) = "QC" THEN <<Seg(nm1, 3), " ", Seg(nm1, 4)>>
               ELSE parse.currentClaim[1].patient_name]_vars

\* C34, as the code has it: field 4 followed by field 3
C34_PatientNameFirstLast ==
  [][ReadsNm1
       => LET nm1 == parse'.lines[Len(parse'.lines)]
          IN parse'.currentClaim[1].patient_name =
               IF Seg(nm1, 1) = "QC" THEN <<Seg(nm1, 4), " ", Seg(nm1, 3)>>
               ELSE parse.currentClaim[1].patient_name]_vars

\* C34, the case that holds: an NM1 record with qualifier IL was read after a
\* named claim detail and the name is still the one of the QC record
C34_OtherQualifierReached ==
  /\ Len(parse.lines) = 3
  /\ Seg(parse.lines[1], 0) = "CLP"
  /\ Seg(parse.lines[2], 0) = "NM1" /\ Seg(parse.lines[2], 1) = "QC"
  /\ Seg(parse.lines[3], 0) = "NM1" /\ Seg(parse.lines[3], 1) = "IL"
  /\ parse.currentClaim # <<>>
  /\ parse.currentClaim[1].patient_name = <<"JANE", " ", "DOE">>

\* ------------------------------------------------- classification of denials
MaxDenials == 2

\* the reason codes createDenialRecord is called with: every code of the
\* category and priority lists, the two payer status codes of a denial, and
\* codes that are in no list
ReasonCodes ==
  {"16", "18", "26", "27", "11", "12", "13", "14", "15", "52", "53", "54", "55", "56",
   "29", "30", "31", "4", "23", "99", "", "constructor"}

\* createDenialRecord(claimId, claimDetail) called on its own
CreateDenialRecord(claimId, claimDetail) ==
  /\ Len(denials) < MaxDenials
  /\ denials' = Append(denials, denialData(claimId, claimDetail))
  /\ UNCHANGED <<claims, postings, nextPostingId, eras, era_claim_details, settings, era>>
  /\ EraUnchanged

\* claim 1 is stored and has no denial yet
InitClassify ==
  /\ claims = (1 :> ClaimRow("CLM1", "DENIED", 50, 0, 50, Now, 1))
  /\ line_items = (1 :> <<LineItem(1, 50)>>)
  /\ postings = EmptyFn
  /\ nextPostingId = 1
  /\ nextClaimId = 2
  /\ req = [r \in ReqIds |-> Idle]
  /\ tx = [r \in ReqIds |-> NoTx]
  /\ ops = 0
  /\ gateway = [calls |-> 1, accepted |-> 1]
  /\ serial = TRUE
  /\ parse = NoParse
  /\ era = NoEra
  /\ eras = EmptyFn
  /\ era_claim_details = <<>>
  /\ denials = <<>>
  /\ settings = EmptyFn
  /\ AuditWorks /\ AuthIdle

\* createDenialRecord called for claim 1 with every reason code
SpecClassify ==
  InitClassify
    /\ [][\E code \in ReasonCodes :
            CreateDenialRecord(1, NewClaimDetail(<<"CLP", "CLM1", code, "50", "0", "0">>))]_vars

\* C32: denial classification is total with a fixed tie-break: the category is
\* that of the first list holding the code in the order technical, clinical,
\* authorization, eligibility (so "27", in the technical and the eligibility
\* list, is TECHNICAL) and OTHER when no list holds it; the priority is URGENT
\* for urgent codes, else HIGH for high-priority codes, else MEDIUM.
C32_ClassificationFirstListWins ==
  \A j \in EraDenials :
    LET code == denials[j].denial_reason_code
        category == denials[j].denial_category
        technical == {"16", "18", "26", "27"}
        clinical == {"11", "12", "13", "14", "15"}
        authorization == {"52", "53", "54", "55", "56"}
        eligibility == {"27", "29", "30", "31"}
        urgent == {"16", "18"}
        high == {"11", "12", "27", "29"}
    IN /\ category \in {"TECHNICAL", "CLINICAL", "AUTHORIZATION", "ELIGIBILITY", "OTHER"}
       /\ code \in technical => category = "TECHNICAL"
       /\ code \in clinical \ technical => category = "CLINICAL"
       /\ code \in authorization \ (technical \cup clinical) => category = "AUTHORIZATION"
       /\ code \in eligibility \ (technical \cup clinical \cup authorization)
            => category = "ELIGIBILITY"
       /\ code \notin technical \cup clinical \cup authorization \cup eligibility
            => category = "OTHER"
       /\ code = "27" => category = "TECHNICAL"
       /\ denials[j].priority = IF code \in urgent THEN "URGENT"
                                ELSE IF code \in high THEN "HIGH" ELSE "MEDIUM"

\* C32 witness: a denial with reason code "27" classified TECHNICAL and HIGH,
\* and a denial with a code of no list classified OTHER and MEDIUM
C32_Witness ==
  /\ \E j \in EraDenials :
       /\ denials[j].denial_reason_code = "27"
       /\ denials[j].denial_category = "TECHNICAL" /\ denials[j].priority = "HIGH"
  /\ \E j \in EraDenials :
       /\ denials[j].denial_reason_code = "99"
       /\ denials[j].denial_category = "OTHER" /\ denials[j].priority = "MEDIUM"

\* ----------------------------------- login (server/middleware/audit.js, routes/auth.js)
MaxClock == 4
maxAttempts == 5
\* 30 * 60 * 1000 ms, in units of ten minutes
LockDuration == 3

\* the bodies of POST /auth/login that pass validateLogin: a stored or an
\* unknown username, the right or a wrong password, no MFA code, the right one
\* or a wrong one
LoginBodies ==
  [username : {"alice", "ghost"}, password : {"secret", "guess"}]
    \cup [username : {"alice", "ghost"}, password : {"secret", "guess"}, mfaCode : {"123456", "000000"}]

\* login(username, password, mfaCode = null): the MFA code of a body was sent
HasMfaCode(body) == "mfaCode" \in DOMAIN body

\* a lock check that never finds the account locked
AccountLocked_Never(user, now) == FALSE

\* user.account_locked_until && new Date() < new Date(user.account_locked_until)
AccountLocked(user, now) == user.account_locked_until # NULL /\ now < user.account_locked_until

\* the route's answer to a login that is over: 401 with result.error, or 200
LoginAnswer(id, code, error, body) == [Answer("login", id, code, error) EXCEPT !.body = body]

\* everything login leaves alone
LoginUnchanged ==
  UNCHANGED <<claims, line_items, postings, nextPostingId, nextClaimId, tx, gateway, eraVars, serial,
              clock>>

\* POST /auth/login, AuthMiddleware.login up to bcrypt.compare: findOne by
\* username, the tests on is_active and account_locked_until
Login(r, body) ==
  /\ Free(r)
  /\ ops' = ops + 1
  /\ LET ids == {u \in DOMAIN accounts : accounts[u].username = body.username}
         id == CHOOSE u \in ids : TRUE
         failure == IF ids = {} THEN "Invalid credentials"
                    ELSE IF ~accounts[id].is_active THEN "Account is inactive"
                    ELSE IF AccountLocked(accounts[id], clock) THEN "Account is temporarily locked"
                    ELSE ""
     IN IF failure # ""
        THEN /\ req' = [req EXCEPT ![r] = LoginAnswer(IF ids = {} THEN 0 ELSE id, 401, failure, body)]
             /\ audit' = auditLog(audit)
        ELSE /\ req' = [req EXCEPT ![r] = [Idle EXCEPT !.op = "login", !.pc = "compare", !.id = id,
                                                       !.body = body, !.existing = accounts[id]]]
             /\ audit' = audit
  /\ accounts' = accounts
  /\ LoginUnchanged

\* AuthMiddleware.login from bcrypt.compare on, with the user row read before:
\* a wrong password counts and may lock, a missing or wrong MFA code fails
\* without a write, a success resets the count and the lock
LoginVerify(r) ==
  /\ req[r].pc = "compare"
  /\ LET user == req[r].existing
         body == req[r].body
         id == req[r].id
         failedAttempts == user.failed_login_attempts + 1
     IN IF body.password # user.password_hash
        THEN /\ accounts' = [accounts EXCEPT
                  ![id].failed_login_attempts = failedAttempts,
                  ![id].account_locked_until =
                     IF failedAttempts >= maxAttempts THEN clock + LockDuration ELSE @]
             /\ req' = [req EXCEPT ![r] = LoginAnswer(id, 401, "Invalid credentials", body)]
        ELSE IF user.mfa_enabled /\ ~HasMfaCode(body)
        THEN /\ accounts' = accounts
             /\ req' = [req EXCEPT ![r] = LoginAnswer(id, 401, "MFA code required", body)]
        ELSE IF user.mfa_enabled /\ body.mfaCode # user.mfa_secret
        THEN /\ accounts' = accounts
             /\ req' = [req EXCEPT ![r] = LoginAnswer(id, 401, "Invalid MFA code", body)]
        ELSE /\ accounts' = [accounts EXCEPT ![id].failed_login_attempts = 0,
                                             ![id].account_locked_until = NULL]
             /\ req' = [req EXCEPT ![r] = LoginAnswer(id, 200, "", body)]
  /\ audit' = auditLog(audit)
  /\ UNCHANGED ops
  /\ LoginUnchanged

\* ten minutes pass
Tick ==
  /\ clock < MaxClock
  /\ clock' = clock + 1
  /\ UNCHANGED <<claims, line_items, postings, nextPostingId, nextClaimId, req, tx, ops, gateway,
                 eraVars, audit, serial, accounts>>

\* user alice with up to four failed attempts and no lock, with five and a
\* lock that has run out or still holds, or deactivated; MFA on or off
InitLogin ==
  /\ claims = EmptyFn
  /\ line_items = EmptyFn
  /\ postings = EmptyFn
  /\ nextPostingId = 1
  /\ nextClaimId = 1
  /\ req = [r \in ReqIds |-> Idle]
  /\ tx = [r \in ReqIds |-> NoTx]
  /\ ops = 0
  /\ gateway = [calls |-> 0, accepted |-> 0]
  /\ serial = FALSE
  /\ parse = NoParse
  /\ era = NoEra
  /\ eras = EmptyFn
  /\ era_claim_details = <<>>
  /\ denials = <<>>
  /\ settings = EmptyFn
  /\ AuditWorks
  /\ clock = 1
  /\ \E mfa_enabled \in BOOLEAN :
       \/ \E failed \in {0, 3, 4} : accounts = (1 :> Account(failed, NULL, mfa_enabled))
       \/ \E until \in {1, 3} : accounts = (1 :> Account(maxAttempts, until, mfa_enabled))
       \/ accounts = (1 :> [Account(0, NULL, mfa_enabled) EXCEPT !.is_active = FALSE])

NextLogin ==
  \/ \E r \in ReqIds, body \in LoginBodies : Login(r, body)
  \/ \E r \in ReqIds : LoginVerify(r)
  \/ Tick

\* logins handled concurrently while time passes
SpecLogin == InitLogin /\ [][NextLogin]_vars

\* the account of user u is locked now
LockedNow(u) == accounts[u].account_locked_until # NULL /\ clock < accounts[u].account_locked_until

\* C40: login lockout: a login attempt for a user whose account_locked_until
\* lies in the future fails, whatever its password and MFA code, and changes
\* no account; a failed password attempt stores the incremented
\* failed_login_attempts and sets the lock exactly when that count is 5 or
\* more; a successful login needs the right password (and MFA code), resets
\* failed_login_attempts to 0 and clears the lock; no other login step writes.
C40_LoginLockout ==
  [][\A r \in ReqIds :
       /\ \A body \in LoginBodies :
            (Login(r, body) /\ \E u \in DOMAIN accounts :
                                  accounts[u].username = body.username /\ LockedNow(u))
              => /\ req'[r].pc = "done" /\ req'[r].status = 401
                 /\ accounts' = accounts
       /\ (req[r].op = "login" /\ req[r].pc = "compare" /\ req'[r].pc = "done")
            => LET u == req[r].id
                   body == req[r].body
                   right == body.password = accounts[u].password_hash
                   passed == right /\ (req[r].existing.mfa_enabled
                                        => HasMfaCode(body) /\ body.mfaCode = accounts[u].mfa_secret)
               IN /\ req'[r].status = 200 <=> passed
                  /\ req'[r].status # 200 => req'[r].status = 401
                  /\ ~right
                       => /\ accounts'[u].failed_login_attempts =
                               req[r].existing.failed_login_attempts + 1
                          /\ IF accounts'[u].failed_login_attempts >= 5
                             THEN accounts'[u].account_locked_until = clock + LockDuration
                             ELSE accounts'[u].account_locked_until = accounts[u].account_locked_until
                  /\ passed
                       => /\ accounts'[u].failed_login_attempts = 0
                          /\ accounts'[u].account_locked_until = NULL
                  /\ (right /\ ~passed) => accounts' = accounts]_vars

\* C40 witness: the fifth wrong password has locked the account, and a login
\* with the right password and the right MFA code made after that was refused
\* as locked, the count still 5
C40_Witness ==
  /\ accounts[1].failed_login_attempts = 5
  /\ accounts[1].account_locked_until = 1 + LockDuration
  /\ LockedNow(1)
  /\ \E r \in ReqIds :
       /\ Finished(r, "login", 401) /\ req[r].error = "Invalid credentials"
       /\ req[r].body.username = "alice"
  /\ \E r \in ReqIds :
       /\ Finished(r, "login", 401) /\ req[r].error = "Account is temporarily locked"
       /\ req[r].body = [username |-> "alice", password |-> "secret", mfaCode |-> "123456"]

====
